---- MODULE Spec2Model ----
(***************************************************************************)
(* A model of sipwise-backup: the scheduler loop (scheduler.py), its       *)
(* durable state file, the backup store with the retention and cleanup     *)
(* policies, and the operator's menu (CLI/main.py).                        *)
(*                                                                         *)
(* Time is counted in whole minutes.  Straight-line code takes no time;    *)
(* the clock moves only while the scheduler process is down, asleep, or    *)
(* blocked in a backup, a retention pass or a cleanup pass.  The process   *)
(* can be killed between any two steps, also between the truncation of     *)
(* the state file and the end of the write that follows it.                *)
(*                                                                         *)
(* The backup executor is taken by its interface: a call returns a file    *)
(* name, returns None, or raises.  The call the scheduler makes (line 424) *)
(* passes a keyword the shipped run_backup does not accept, so with that   *)
(* executor it always raises (BackupRaises).                               *)
(*                                                                         *)
(* A restore (restore.py) is followed stage by stage over the files of     *)
(* /etc/ngcp-config, read and patched as text, and the database; ngcpcfg   *)
(* and mysql are taken by their exit code.  The restore menu               *)
(* (CLI/main.py) is followed question by question up to its call of        *)
(* run_restore.                                                            *)
(*                                                                         *)
(* The specifications share the actions: Spec (the service from start to   *)
(* stop, the whole tick), CrashSpec (the service over kills and restarts), *)
(* ConcSpec (the service next to the operator's menu), PolicySpec (the     *)
(* backup store under the retention and cleanup policies), AgedSpec (the   *)
(* same passes over backups aged 1 to 100 days under the default           *)
(* retention), CodecSpec (file names built and parsed as text), ListSpec   *)
(* (a storage directory listed), RestoreSpec (run_restore called with      *)
(* either choice of its two options), MenuSpec (the restore menu from      *)
(* the selection of a backup on), BackupSpec (run_backup stage by stage),  *)
(* SharedSpec (a restore next to a backup, over the one staging            *)
(* directory), StopSpec (the service with stop() called inside a tick)     *)
(* and LiveSpec (the service with both schedules on, every write and       *)
(* command working, under weak fairness of its steps and of the clock).    *)
(***************************************************************************)
EXTENDS Integers, Sequences, FiniteSets, TLC

\* ---------------------------------------------------------------- bounds
\* The clock stops at MaxTime.  A day has MinutesPerDay minutes and a month
\* DaysPerMonth days.  Frequency is the configured backup period and
\* RetentionDays the largest configured retention, MaxArtifacts the room in
\* the storage, MaxFound and MaxFoundTime the number and the latest time of
\* the files found in the storage at the start, MenuRoom the room in the
\* storage next to the menu.
MaxTime == 7
MinutesPerDay == 2
DaysPerMonth == 2
Frequency == 2
RetentionDays == 1
MaxArtifacts == 3
MaxFound == 2
MaxFoundTime == 1
MenuRoom == 1

\* ------------------------------------------------------ program constants
SleepMinutes == 1
BackoffMinutes == 5
ConfigCheckInterval == 5

None == 0 - 1
NotRun == 0 - 2

MinutesPerMonth == DaysPerMonth * MinutesPerDay

\* The configured reboot schedule: day of month (1-based, the default) and
\* time of day.
RebootDay == 1
RebootMinute == 1

\* backup.retention.days when config.yml does not set it.
DefaultRetentionDays == 30

VARIABLES
    now,            \* the wall clock, in minutes
    file,           \* scheduler_state.json
    cfgOptions,     \* config.yml: the schedule switches it may hold when read
    cleanupMode,    \* config.yml: backup.cleanup, "off" when not enabled
    storageType,    \* config.yml: storage.type
    retentionDays,  \* config.yml: backup.retention.days
    capacity,       \* how many backup files the storage has room for
    storage,        \* the backup files in the storage directory
    pc,             \* where the scheduler process is
    running,        \* BackupScheduler.running
    cfg,            \* BackupScheduler.config, the snapshot in memory
    lastCfgCheck,   \* run(): last_config_check
    cur,            \* run(): current_time of the tick
    lbt,            \* run(): last_backup_time
    lrm,            \* BackupScheduler.last_reboot_month
    st,             \* run(): state, as loaded at startup
    saveBuf,        \* _save_state(): the dict being written
    ret,            \* where _save_state() returns to
    asleepAt,       \* when the current time.sleep began
    retRes,         \* run_scheduled_backup(): retention_deleted
    cliPc,          \* where the operator's menu process is
    polPc,          \* where the one-shot --cleanup process is
    polRes,         \* what the --cleanup process's last pass returned
    inflight,       \* the backup/restore operations executing now
    codecPc,        \* where the file-name exercise is
    fields,         \* the identity, kind and time a file name is built from
    fname,          \* a file name, character by character
    decoded,        \* what parse_backup_name returned for it
    listPc,         \* where the listing exercise is
    dirEntries,     \* the names os.listdir / ftp.nlst returns, in its order
    listed,         \* what list_backups returned
    rPc,            \* run_restore(): the stage to run next
    rArgs,          \* run_restore(): preserve_sql_key and disable_firewall
    keyLineCfg,     \* config.yml: sipwise.constants_yml.sql_encryption_key_line
    fwLineCfg,      \* config.yml: sipwise.config_yml.firewall_enable_line
    live,           \* the files of /etc/ngcp-config
    db,             \* the MySQL database
    artifact,       \* the ngcp-config tree inside the backup being restored
    tempkey,        \* the staging file tmp/tempkey
    originalKey,    \* run_restore(): original_key
    result,         \* what run_restore returned, "pending" until then
    stages,         \* history: the stages run_restore completed
    cleanups,       \* history: the calls of clean_tmp
    liveAtCall,     \* history: the files of /etc/ngcp-config at the call
    mPc,            \* where the restore menu is
    current,        \* config.yml: server_name and instance_type
    sel,            \* handle_restore_confirmation(): backup
    preserveSqlKey, \* _handle_different_server_restore(): preserve_sql_key
    disableFirewall, \* _handle_different_server_restore(): disable_firewall
    route,          \* history: the flow the selected backup was given to
    asked,          \* history: the questions put to the operator, with the answers
    bPc,            \* run_backup(): the step to run next
    backupType,     \* run_backup(): backup_type
    staged,         \* what the backup has put into the staging directory
    backupFilename, \* run_backup(): backup_filename
    archive,        \* the parts inside the zip file built in the staging directory
    saved,          \* the parts of the artifact save_backup has stored
    bRet,           \* what run_backup returned, "pending" until then
    cleanRaised,    \* history: a clean_tmp call of this backup raised
    trail,          \* history: what the current tick has done so far
    lastReboot,     \* history: the month of the last reboot issued
    dupReboot,      \* history: a reboot was issued in a month that had one
    notified        \* history: success mails sent for the pending reboot

vars == <<now, file, cfgOptions, cleanupMode, storageType, retentionDays, capacity, storage, pc, running, cfg,
          lastCfgCheck, cur, lbt, lrm, st, saveBuf, ret, asleepAt, retRes, cliPc,
          polPc, polRes, inflight, codecPc, fields, fname, decoded,
          listPc, dirEntries, listed,
          rPc, rArgs, keyLineCfg, fwLineCfg, live, db, artifact, tempkey,
          originalKey, result, stages, cleanups, liveAtCall,
          mPc, current, sel, preserveSqlKey, disableFirewall, route, asked,
          bPc, backupType, staged, backupFilename, archive, saved, bRet, cleanRaised,
          trail, lastReboot, dupReboot, notified>>

\* ------------------------------------------------------------ calendar
DayOf(t) == t \div MinutesPerDay
MinuteOfDay(t) == t % MinutesPerDay
DayOfMonth(t) == (DayOf(t) % DaysPerMonth) + 1
MonthKey(t) == t \div MinutesPerMonth

\* ------------------------------------------------------------ state file
EmptyState == [lbt |-> None, lrm |-> None, pend |-> None]
Torn == [ok |-> FALSE, lbt |-> None, lrm |-> None, pend |-> None]
Written(s) == [ok |-> TRUE, lbt |-> s.lbt, lrm |-> s.lrm, pend |-> s.pend]

\* Nothing is read from the file.
LoadStateAfresh(f) == EmptyState

\* _load_state: the parsed document, or {} when the file is missing or
\* does not parse.
LoadState(f) ==
    IF f.ok THEN [lbt |-> f.lbt, lrm |-> f.lrm, pend |-> f.pend] ELSE EmptyState

\* ------------------------------------------------------------ config.yml
\* The schedule switches of config.yml: backup.automatic.enabled and
\* reboot.automatic.
GoodConfigs == [ok : {TRUE}, backup : BOOLEAN, reboot : BOOLEAN]
NoConfig == [ok |-> FALSE, backup |-> FALSE, reboot |-> FALSE]

\* Either switch would start the schedule.
IsAnyScheduleEnabled(c) == c.backup \/ c.reboot

\* is_automatic_backup_enabled
IsAutomaticBackupEnabled(c) == c.backup
IsAutomaticRebootEnabled(c) == c.reboot

ShouldRebootNow(t) ==
    /\ DayOfMonth(t) = RebootDay
    /\ MinuteOfDay(t) = RebootMinute

BackupDue(t, last) == last = None \/ t - last >= Frequency

\* --------------------------------------------------------- backup names
\* A string is held as the sequence of its maximal hyphen-free pieces, so
\* that split('-') and '-'.join are what they are in the code.  A file name
\* is the pieces before the time token, and the minute the token encodes.
ServerName == <<"ngcp">>
InstanceType == <<"pro">>
OtherServer == <<"lab">>
Unknown == <<"unknown">>

GenerateBackupName(kind, t) ==
    [id |-> ServerName \o InstanceType \o <<kind>>, ts |-> t]

HasKind(id) == Len(id) >= 3 /\ id[Len(id)] \in {"auto", "manual"}

ServerInstanceParts(id) == IF HasKind(id) THEN SubSeq(id, 1, Len(id) - 1) ELSE id

ParseBackupName(f) ==
    IF Len(f.id) < 2
    THEN [valid |-> FALSE, server_name |-> Unknown, instance_type |-> Unknown,
          type |-> "unknown", datetime |-> None, filename |-> f]
    ELSE LET si == ServerInstanceParts(f.id)
         IN  [valid |-> TRUE,
              server_name |-> IF Len(si) > 1 THEN SubSeq(si, 1, Len(si) - 1) ELSE Unknown,
              instance_type |-> <<si[Len(si)]>>,
              type |-> IF HasKind(f.id) THEN f.id[Len(f.id)] ELSE "unknown",
              datetime |-> f.ts,
              filename |-> f]

\* list_backups, without its order: the files whose names parse.
ListBackups(S) == {b \in {ParseBackupName(f) : f \in S} : b.valid}

\* The backups of every server, were the server name not compared.
MatchingBackupsAnyServer(S) == ListBackups(S)

MatchingBackups(S) == {b \in ListBackups(S) : b.server_name = ServerName}

\* ------------------------------------------------------------ retention
\* The cutoff, were a backup dated at the cutoff itself to count as old.
CutoffDateInclusive(t) == t - retentionDays * MinutesPerDay + 1

CutoffDate(t) == t - retentionDays * MinutesPerDay

\* The files to delete, were only backups of kind auto subject to retention.
RetentionEligibleAutoOnly(S, t) ==
    {b.filename : b \in {m \in MatchingBackups(S) :
                            m.type = "auto" /\ m.datetime < CutoffDate(t)}}

\* The files a retention pass at time t tries to delete.
RetentionEligible(S, t) ==
    {b.filename : b \in {m \in MatchingBackups(S) :
                            m.type # "manual" /\ m.datetime < CutoffDate(t)}}

\* apply_retention_policy returns None, not a count, on its two early
\* returns: an empty listing, and no backup of this server.
RetentionReturnsCount(S) == ListBackups(S) # {} /\ MatchingBackups(S) # {}

\* -------------------------------------------------------------- cleanup
\* The backups the cleanup groups by day, were manual ones not filtered out.
AutoBackupsWithManual(S) == MatchingBackups(S)

\* apply_cleanup_policy: auto_backups, the matching backups that are not
\* manual.
AutoBackups(S) == {b \in MatchingBackups(S) : b.type # "manual"}

DayKeys(S) == {DayOf(b.datetime) : b \in AutoBackups(S)}

DayBackups(S, d) == {b \in AutoBackups(S) : DayOf(b.datetime) = d}

\* The sort, were it oldest first.
Oldest(B) == {b \in B : \A o \in B : o.datetime >= b.datetime}

Newest(B) == {b \in B : \A o \in B : o.datetime <= b.datetime}

\* The days pruned, were the current day not skipped.
CleanupDaysWithToday(S, t) == {d \in DayKeys(S) : Cardinality(DayBackups(S, d)) > 1}

\* The days a cleanup pass at time t prunes.
CleanupDays(S, t) == {d \in DayKeys(S) : d # DayOf(t) /\ Cardinality(DayBackups(S, d)) > 1}

\* keep is the backup left standing per pruned day (the first after the
\* stable sort, newest first); all others of the day are to be deleted.
CleanupEligible(S, t, keep) ==
    {b.filename : b \in {x \in AutoBackups(S) :
        DayOf(x.datetime) \in CleanupDays(S, t) /\ x # keep[DayOf(x.datetime)]}}

KeepChoices(S, t) ==
    {k \in [CleanupDays(S, t) -> AutoBackups(S)] :
        \A d \in CleanupDays(S, t) : k[d] \in Newest(DayBackups(S, d))}

\* The mode test, were an unknown mode taken for last_per_day.
CleanupRunsUnlessOff == cleanupMode # "off"

CleanupRuns == cleanupMode = "last_per_day"


\* What a listing shows: the store, or nothing when the FTP listing fails
\* (_list_backups_remote logs the error and returns []).
Listings(S) == IF storageType = "remote" THEN {S, {}} ELSE {S}

\* What a batch of deletes removes: on FTP each delete can fail.
Deleted(E) == IF storageType = "remote" THEN SUBSET E ELSE {E}

\* save_backup succeeds: the file overwrites one of its name, or there is
\* room for it.
CanStore(f) == f \in storage \/ Cardinality(storage) < capacity

\* -------------------------------------------- backup names, as text
\* The same codec character by character: a text is the sequence of its
\* characters (letters, digits, '-', '_' and '.'; no white space), a date
\* is a record of calendar fields.  The policies above work on names
\* already split at the hyphens, with the time token already read.
Digits == <<"0", "1", "2", "3", "4", "5", "6", "7", "8", "9">>

IsDigit(c) == \E i \in 1..10 : Digits[i] = c

DigitValue(c) == (CHOOSE i \in 1..10 : Digits[i] = c) - 1

AutoText == <<"a", "u", "t", "o">>
ManualText == <<"m", "a", "n", "u", "a", "l">>
UnknownText == <<"u", "n", "k", "n", "o", "w", "n">>
ZipExt == <<".", "z", "i", "p">>

\* str.split(d)
RECURSIVE Split(_, _)
Split(s, d) ==
    IF \A i \in 1..Len(s) : s[i] # d
    THEN <<s>>
    ELSE LET i == CHOOSE k \in 1..Len(s) : s[k] = d /\ \A j \in 1..(k - 1) : s[j] # d
         IN  <<SubSeq(s, 1, i - 1)>> \o Split(SubSeq(s, i + 1, Len(s)), d)

\* d.join(parts)
RECURSIVE Join(_, _)
Join(parts, d) ==
    IF parts = <<>> THEN <<>>
    ELSE IF Len(parts) = 1 THEN parts[1]
    ELSE parts[1] \o <<d>> \o Join(Tail(parts), d)

\* os.path.splitext(name)[0]: the name up to its last dot, unless only
\* dots come before that dot.
SplitExt(s) ==
    LET dots == {i \in 1..Len(s) : s[i] = "." /\ \E j \in 1..(i - 1) : s[j] # "."}
    IN  IF dots = {} THEN s
        ELSE SubSeq(s, 1, (CHOOSE i \in dots : \A j \in dots : j <= i) - 1)

\* str.startswith
StartsWith(s, prefix) ==
    Len(s) >= Len(prefix) /\ SubSeq(s, 1, Len(prefix)) = prefix

IsSpace(c) == c \in {" ", "\t"}

\* str.lstrip, str.rstrip and str.strip
RECURSIVE LStrip(_)
LStrip(s) ==
    IF s # <<>> /\ IsSpace(Head(s)) THEN LStrip(Tail(s)) ELSE s

RECURSIVE RStrip(_)
RStrip(s) ==
    IF s # <<>> /\ IsSpace(s[Len(s)]) THEN RStrip(SubSeq(s, 1, Len(s) - 1)) ELSE s

Strip(s) == LStrip(RStrip(s))

\* str.find: where sub first occurs in s, 0 if nowhere
Find(s, sub) ==
    LET at == {i \in 1..(Len(s) - Len(sub) + 1) : SubSeq(s, i, i + Len(sub) - 1) = sub}
    IN  IF at = {} THEN 0 ELSE CHOOSE i \in at : \A j \in at : i <= j

\* s.split(sub, 1)[0] and s.split(sub, 1)[1], for an s that holds sub
BeforeFirst(s, sub) == SubSeq(s, 1, Find(s, sub) - 1)

AfterFirst(s, sub) == SubSeq(s, Find(s, sub) + Len(sub), Len(s))

Pad2(n) == <<Digits[(n \div 10) + 1], Digits[(n % 10) + 1]>>

Pad4(n) == Pad2(n \div 100) \o Pad2(n % 100)

\* strftime("%H-%M_%d-%m-%Y")
Strftime(t) ==
    Pad2(t.hour) \o <<"-">> \o Pad2(t.minute) \o <<"_">> \o Pad2(t.day) \o <<"-">>
        \o Pad2(t.month) \o <<"-">> \o Pad4(t.year)

\* generate_backup_name, for the configured server name and instance type
\* and the time of the call.
GenerateFileName(server, instance, kind, t) ==
    server \o <<"-">> \o instance \o <<"-">> \o kind \o <<"-">> \o Strftime(t) \o ZipExt

\* The layout of the releases before the kind segment (the "old format"
\* of parse_backup_name's comment).
LegacyFileName(server, instance, t) ==
    server \o <<"-">> \o instance \o <<"-">> \o Strftime(t) \o ZipExt

IsNumber(s) == s # <<>> /\ \A i \in 1..Len(s) : IsDigit(s[i])

RECURSIVE NumberValue(_)
NumberValue(s) ==
    IF s = <<>> THEN 0
    ELSE NumberValue(SubSeq(s, 1, Len(s) - 1)) * 10 + DigitValue(s[Len(s)])

IsLeap(y) == (y % 4 = 0 /\ y % 100 # 0) \/ y % 400 = 0

\* Every month as long as the longest.
DaysInMonthAlways31(y, m) == 31

DaysInMonth(y, m) ==
    IF m = 2 THEN (IF IsLeap(y) THEN 29 ELSE 28)
    ELSE IF m \in {4, 6, 9, 11} THEN 30 ELSE 31

NoDate == [year |-> 0, month |-> 0, day |-> 0, hour |-> 0, minute |-> 0]

\* datetime.strptime(f"{year}-{month}-{day} {hour}:{minute}",
\* "%Y-%m-%d %H:%M"): %Y takes four digits, the other directives one or
\* two, each within its range, and the date must exist.  NoDate stands
\* for the ValueError.
Strptime(year, month, day, hour, minute) ==
    IF /\ IsNumber(year) /\ Len(year) = 4
       /\ \A f \in {month, day, hour, minute} : IsNumber(f) /\ Len(f) <= 2
       /\ NumberValue(year) >= 1
       /\ NumberValue(month) \in 1..12
       /\ NumberValue(day) >= 1
       /\ NumberValue(day) <= DaysInMonth(NumberValue(year), NumberValue(month))
       /\ NumberValue(hour) \in 0..23
       /\ NumberValue(minute) \in 0..59
    THEN [year |-> NumberValue(year), month |-> NumberValue(month),
          day |-> NumberValue(day), hour |-> NumberValue(hour),
          minute |-> NumberValue(minute)]
    ELSE NoDate

\* parse_backup_name returns None.
NoArtifact == [valid |-> FALSE, server_name |-> <<>>, instance_type |-> <<>>,
               type |-> <<>>, datetime |-> NoDate, filename |-> <<>>]

\* The kind segment is never looked for.
HasKindSegmentNever(parts) == FALSE

\* The kind segment is looked for in names of any length.
HasKindSegmentAnyLength(parts) ==
    parts[Len(parts) - 4] \in {AutoText, ManualText}

\* parse_backup_name, line 179: the 5th part from the end is a kind.
HasKindSegment(parts) ==
    Len(parts) >= 7 /\ parts[Len(parts) - 4] \in {AutoText, ManualText}

\* parse_backup_name
ParseFileName(filename) ==
    LET parts == Split(SplitExt(filename), "-")
        n == Len(parts)
    IN  IF n < 6 THEN NoArtifact
        ELSE
        LET si == IF HasKindSegment(parts) THEN SubSeq(parts, 1, n - 5)
                                           ELSE SubSeq(parts, 1, n - 4)
            minute_day == Split(parts[n - 2], "_")
        IN  IF Len(minute_day) # 2 THEN NoArtifact
            ELSE
            LET dt == Strptime(parts[n], parts[n - 1], minute_day[2],
                               parts[n - 3], minute_day[1])
            IN  IF dt = NoDate THEN NoArtifact
                ELSE [valid |-> TRUE,
                      server_name |-> IF Len(si) > 1
                                      THEN Join(SubSeq(si, 1, Len(si) - 1), "-")
                                      ELSE UnknownText,
                      instance_type |-> IF si # <<>> THEN si[Len(si)] ELSE UnknownText,
                      type |-> IF HasKindSegment(parts) THEN parts[n - 4] ELSE UnknownText,
                      datetime |-> dt,
                      filename |-> filename]

\* ------------------------------------------------------------ the restore
\* A text file is its lines, each without its line end; a file of the
\* configuration tree exists or not.
Missing == 0 - 3

NoFile == [exists |-> FALSE, lines |-> <<>>]

File(lines) == [exists |-> TRUE, lines |-> lines]

FileNames == {"constants.yml", "config.yml", "network.yml"}

NoTree == [f \in FileNames |-> NoFile]

\* original_key = None, and an exception where a text is returned
NoKey == <<"None">>

Raised == <<"raised">>

KeyPrefix == <<"k", "e", "y", ":">>

EnablePrefix == <<"e", "n", "a", "b", "l", "e", ":">>

YesText == <<"y", "e", "s">>

NoText == <<"n", "o">>

\* RestoreManager.__init__, lines 46-51: the line numbers, and the ones
\* used when config.yml does not give them.
DefaultKeyLine == 293

DefaultFirewallLine == 1568

\* The key line as config.yml gives it, given or not.
TargetKeyLineAsConfigured == keyLineCfg

TargetKeyLine == IF keyLineCfg = Missing THEN DefaultKeyLine ELSE keyLineCfg

FirewallEnableLine == IF fwLineCfg = Missing THEN DefaultFirewallLine ELSE fwLineCfg

\* lines[n - 1]: the place of that line counted from 1, or 0 where the
\* index is out of range.  An index below zero counts from the end.
LineAt(lines, n) ==
    IF n >= 1 THEN (IF n <= Len(lines) THEN n ELSE 0)
    ELSE (IF Len(lines) + n >= 1 THEN Len(lines) + n ELSE 0)

\* extract_key
ExtractKey(constants, target) ==
    IF ~constants.exists THEN Raised
    ELSE IF target > Len(constants.lines) THEN Raised
    ELSE IF LineAt(constants.lines, target) = 0 THEN Raised
    ELSE LET line == Strip(constants.lines[LineAt(constants.lines, target)])
         IN  IF ~StartsWith(line, KeyPrefix) THEN Raised
             ELSE Strip(AfterFirst(line, KeyPrefix))

\* save_key_to_temp
SaveKeyToTemp(key) == File(<<key>>)

\* restore_key_into_constants: whether it returned, and the file after it
RestoreKeyIntoConstants(temp, constants, target) ==
    IF ~temp.exists \/ ~constants.exists \/ LineAt(constants.lines, target) = 0
    THEN [ok |-> FALSE, file |-> constants]
    ELSE LET at == LineAt(constants.lines, target)
             key == Strip(temp.lines[1])
             old_line == RStrip(constants.lines[at])
         IN  IF ~StartsWith(Strip(old_line), KeyPrefix)
             THEN [ok |-> FALSE, file |-> constants]
             ELSE [ok |-> TRUE,
                   file |-> File([constants.lines EXCEPT ![at] =
                       BeforeFirst(old_line, KeyPrefix) \o KeyPrefix \o <<" ">> \o key])]

\* firewall_enable_pattern, line 60
FirewallEnablePattern(line) ==
    /\ StartsWith(LStrip(line), EnablePrefix)
    /\ Strip(AfterFirst(LStrip(line), EnablePrefix)) \in {YesText, NoText}

\* disable_firewall_in_config: whether it returned, and the file after it
DisableFirewallInConfig(config, target) ==
    IF \/ ~config.exists
       \/ Len(config.lines) < target
       \/ LineAt(config.lines, target) = 0
    THEN [ok |-> FALSE, file |-> config]
    ELSE LET at == LineAt(config.lines, target)
             old_line == RStrip(config.lines[at])
         IN  IF ~FirewallEnablePattern(old_line)
             THEN [ok |-> FALSE, file |-> config]
             ELSE [ok |-> TRUE,
                   file |-> File([config.lines EXCEPT ![at] =
                       BeforeFirst(old_line, EnablePrefix) \o EnablePrefix
                           \o <<" ">> \o NoText])]

\* No file is kept from the live instance.
ExcludeNothing == {}

\* RestoreManager.exclude_files, line 56
ExcludeFiles == {"network.yml"}

\* restore_ngcp_config, lines 310-326, for the items in done: each item of
\* the backup's tree takes the place of the live one, but for the excluded.
RestoreItems(tree, backup, done) ==
    [f \in FileNames |->
        IF f \in done /\ f \notin ExcludeFiles /\ backup[f].exists
        THEN backup[f] ELSE tree[f]]

RestoreNgcpConfig(tree, backup) == RestoreItems(tree, backup, FileNames)

\* ------------------------------------------------ the parts of a backup
\* What run_backup puts into an archive: the copy of /etc/ngcp-config and
\* the dump of the database.
Parts == {"ngcp-config", "database.sql"}

\* What run_restore looks for in an extracted archive: ngcp-config/
\* (restore_ngcp_config) and database.sql (restore_mysql_database).
RestoreRequires == {"ngcp-config", "database.sql"}

\* No name was generated yet.
NoName == [id |-> <<>>, ts |-> None]

\* Nothing was stored.
NotSaved == [there |-> FALSE, parts |-> {}]

\* ------------------------------------------------------- variable groups
memVars == <<running, cfg, lastCfgCheck, cur, lbt, lrm, st, saveBuf, ret, asleepAt, retRes>>
cliVars == <<cliPc, polPc>>
codecVars == <<codecPc, fields, fname, decoded>>
listVars == <<listPc, dirEntries, listed>>
runVars == <<rPc, rArgs, keyLineCfg, fwLineCfg, live, db, artifact, tempkey,
             originalKey, result, stages, cleanups, liveAtCall>>
menuVars == <<mPc, current, sel, preserveSqlKey, disableFirewall, route, asked>>
bakVars == <<bPc, backupType, staged, backupFilename, archive, saved, bRet, cleanRaised>>
sessionVars == <<listVars, runVars, menuVars, bakVars>>
envVars == <<now, cfgOptions, cleanupMode, storageType, retentionDays, capacity>>
histVars == <<trail, lastReboot, dupReboot, notified>>

Pcs == {"down", "startup", "notify", "clearpend", "saving", "tick", "backup",
        "retention", "cleanup", "persist", "rebootchk", "reboot1", "reboot2",
        "sleep60", "backoff", "exited"}

TypeOK ==
    /\ now \in 0..MaxTime
    /\ pc \in Pcs
    /\ cliPc \in {"menu", "manual", "restore"}
    /\ polPc \in {"off", "retention", "cleanup"}
    /\ polRes \in {NotRun, None} \cup Nat
    /\ codecPc \in {"off", "fields", "named", "parsed"}
    /\ listPc \in {"off", "dir", "listed", "raised", "cut"}
    /\ rPc \in {"off", "save_key", "fetch", "config", "patch_key", "firewall", "apply1",
               "database", "apply2", "clean", "returned"}
    /\ result \in {"pending", "True", "False", "TypeError"}
    /\ mPc \in {"off", "select", "same_confirm", "key_prompt", "firewall_prompt",
               "final_confirm", "back"}
    /\ route \in {"none", "same", "dr"}
    /\ cleanups \in Nat
    /\ bPc \in {"off", "mkdir", "config", "dump", "zip", "save", "clean", "returned"}
    /\ backupType \in {"auto", "manual"}
    /\ staged \subseteq {"workdir", "ngcp-config", "database.sql", "archive"}
    /\ archive \subseteq Parts
    /\ saved.parts \subseteq Parts
    /\ bRet \in {"pending", "name", "None"}
    /\ cleanRaised \in BOOLEAN
    /\ capacity \in Nat
    /\ IsFiniteSet(storage)
    /\ lbt \in {None} \cup (0..MaxTime)
    /\ lrm \in {None} \cup (0..MonthKey(MaxTime))

NoKind == <<>>

NoFields == [server |-> <<>>, instance |-> <<>>, kind |-> NoKind, time |-> NoDate]

\* No file name is being built or read.
CodecOff ==
    /\ codecPc = "off"
    /\ fields = NoFields
    /\ fname = <<>>
    /\ decoded = NoArtifact

\* No directory is being listed.
ListOff ==
    /\ listPc = "off"
    /\ dirEntries = <<>>
    /\ listed = <<>>

\* No restore was called.
RunOff ==
    /\ rPc = "off"
    /\ rArgs = [preserve |-> FALSE, firewall |-> FALSE]
    /\ keyLineCfg = Missing
    /\ fwLineCfg = Missing
    /\ live = NoTree
    /\ db = "live"
    /\ artifact = NoTree
    /\ tempkey = NoFile
    /\ originalKey = NoKey
    /\ result = "pending"
    /\ stages = <<>>
    /\ cleanups = 0
    /\ liveAtCall = NoTree

\* The restore menu is not open.
MenuOff ==
    /\ mPc = "off"
    /\ current = [server_name |-> <<>>, instance_type |-> <<>>]
    /\ sel = NoArtifact
    /\ preserveSqlKey = FALSE
    /\ disableFirewall = FALSE
    /\ route = "none"
    /\ asked = <<>>

\* No backup was called from the menu.
BakOff ==
    /\ bPc = "off"
    /\ backupType = "manual"
    /\ staged = {}
    /\ backupFilename = NoName
    /\ archive = {}
    /\ saved = NotSaved
    /\ bRet = "pending"
    /\ cleanRaised = FALSE

SessionOff ==
    /\ ListOff
    /\ RunOff
    /\ MenuOff
    /\ BakOff

\* The scheduler process is not running and nothing was ever written.
InitCommon ==
    /\ now = 0
    /\ file = Written(EmptyState)
    /\ pc = "down"
    /\ running = FALSE
    /\ cfg = NoConfig
    /\ lastCfgCheck = 0
    /\ cur = 0
    /\ lbt = None
    /\ lrm = None
    /\ st = EmptyState
    /\ saveBuf = EmptyState
    /\ ret = "tick"
    /\ asleepAt = 0
    /\ retRes = None
    /\ cliPc = "menu"
    /\ polPc = "off"
    /\ polRes = NotRun
    /\ inflight = {}
    /\ trail = <<>>
    /\ lastReboot = None
    /\ dupReboot = FALSE
    /\ notified = 0

Init ==
    /\ InitCommon
    /\ CodecOff
    /\ SessionOff
    /\ cfgOptions = GoodConfigs
    /\ cleanupMode = "last_per_day"
    /\ storageType = "local"
    /\ retentionDays = 0
    /\ capacity = MaxArtifacts
    /\ storage = {}

\* ------------------------------------------------------------- the world
\* The clock moves while the scheduler is down, asleep or blocked in an
\* operation that takes time.
TimedPcs == {"down", "exited", "notify", "backup", "retention", "cleanup", "sleep60", "backoff"}

Advance ==
    /\ now < MaxTime
    /\ pc \in TimedPcs
    /\ now' = now + 1
    /\ UNCHANGED <<sessionVars, codecVars, polRes, file, cfgOptions, cleanupMode, storageType, retentionDays, capacity,
                   storage, pc, memVars, cliVars, inflight, histVars>>

\* The memory of a process that is not running.
MemoryGone ==
    /\ running' = FALSE
    /\ cfg' = NoConfig
    /\ lastCfgCheck' = 0
    /\ cur' = 0
    /\ lbt' = None
    /\ lrm' = None
    /\ st' = EmptyState
    /\ saveBuf' = EmptyState
    /\ ret' = "tick"
    /\ asleepAt' = 0
    /\ retRes' = None
    /\ trail' = <<>>

\* The process dies (kill, power loss, the host going down for a reboot):
\* its memory is gone, the files stay as they are.
Kill ==
    /\ pc # "down"
    /\ pc' = "down"
    /\ MemoryGone
    /\ inflight' = inflight \ {"scheduled"}
    /\ UNCHANGED <<sessionVars, codecVars, polRes, envVars, file, storage, cliVars, lastReboot, dupReboot, notified>>

\* ------------------------------------------------- scheduler: start-up
\* BackupScheduler() reads config.yml, whatever the operator has left in
\* it (a file that does not parse ends the process at once); run() sets
\* the running flag.
Start ==
    /\ pc = "down"
    /\ pc' = "startup"
    /\ cfg' \in cfgOptions
    /\ running' = TRUE
    /\ UNCHANGED <<sessionVars, codecVars, polRes, envVars, file, storage, lastCfgCheck, cur, lbt, lrm, st, saveBuf, ret,
                   asleepAt, retRes, cliVars, inflight, histVars>>

\* run(), lines 482-489 and 501-505.
Startup ==
    /\ pc = "startup"
    /\ lbt' = LoadState(file).lbt
    /\ lrm' = LoadState(file).lrm
    /\ lastCfgCheck' = now
    /\ IF LoadState(file).pend # None
       THEN pc' = "notify" /\ st' = LoadState(file)
       ELSE pc' = "tick" /\ st' = EmptyState
    /\ UNCHANGED <<sessionVars, codecVars, polRes, envVars, file, storage, running, cfg, cur, saveBuf, ret, asleepAt,
                   retRes, cliVars, inflight, histVars>>

\* run(), line 494: the deferred reboot-success mail is sent.
Notify ==
    /\ pc = "notify"
    /\ notified' = IF notified < 2 THEN notified + 1 ELSE notified
    /\ pc' = "clearpend"
    /\ UNCHANGED <<sessionVars, codecVars, polRes, envVars, file, storage, memVars, cliVars, inflight,
                   trail, lastReboot, dupReboot>>

\* _save_state opens the file for writing, which truncates it, and then
\* writes the document: the state file is torn from here to SaveWrite.
\* When the open fails the error is logged, the file keeps what it held
\* and the caller goes on.
SaveState(s, back) ==
    \/ /\ file' = Torn
       /\ saveBuf' = s
       /\ ret' = back
       /\ pc' = "saving"
    \/ /\ file' = file
       /\ saveBuf' = EmptyState
       /\ ret' = "tick"
       /\ pc' = back

\* _save_state, line 65: json.dump writes the document.
SaveWrite ==
    /\ pc = "saving"
    /\ file' = Written(saveBuf)
    /\ pc' = ret
    /\ saveBuf' = EmptyState
    /\ ret' = "tick"
    /\ UNCHANGED <<sessionVars, codecVars, polRes, envVars, storage, running, cfg, lastCfgCheck, cur, lbt, lrm, st,
                   asleepAt, retRes, cliVars, inflight, histVars>>

\* _save_state, lines 65-67: the write fails part-way (a full disk); the
\* error is logged and the caller goes on with a truncated file.
SaveWriteFails ==
    /\ pc = "saving"
    /\ file' = Torn
    /\ pc' = ret
    /\ saveBuf' = EmptyState
    /\ ret' = "tick"
    /\ UNCHANGED <<sessionVars, codecVars, polRes, envVars, storage, running, cfg, lastCfgCheck, cur, lbt, lrm, st,
                   asleepAt, retRes, cliVars, inflight, histVars>>

\* run(), lines 497-498 and 504.
ClearPending ==
    /\ pc = "clearpend"
    /\ SaveState([st EXCEPT !.pend = None], "tick")
    /\ st' = EmptyState
    /\ lastCfgCheck' = now
    /\ UNCHANGED <<sessionVars, codecVars, polRes, envVars, storage, running, cfg, cur, lbt, lrm, asleepAt, retRes,
                   cliVars, inflight, histVars>>

\* ------------------------------------------------- scheduler: one tick
\* The except clause, were it to leave the loop instead of sleeping.
CaughtEndsLoop ==
    /\ pc' = "exited"
    /\ asleepAt' = now

\* The except clause of the loop, lines 596-599: the error is printed and
\* the loop sleeps BackoffMinutes before the next tick.
Caught ==
    /\ pc' = "backoff"
    /\ asleepAt' = now

\* time.sleep(60), lines 525 and 590.
Sleep ==
    /\ pc' = "sleep60"
    /\ asleepAt' = now

ReloadDue == now - lastCfgCheck >= ConfigCheckInterval

\* The configurations the tick can work with: the snapshot, or after a
\* reload what config.yml holds by then.
TickConfigs == IF ReloadDue THEN cfgOptions ELSE {cfg}

\* The loop body is entered with the flag down.
TickStoppedGoesOn ==
    /\ pc = "tick"
    /\ ~running
    /\ pc' = "rebootchk"
    /\ UNCHANGED <<sessionVars, codecVars, polRes, envVars, file, storage, memVars, cliVars, inflight, histVars>>

\* run(), line 507: the flag is down, the loop ends.
TickStopped ==
    /\ pc = "tick"
    /\ ~running
    /\ pc' = "exited"
    /\ UNCHANGED <<sessionVars, codecVars, polRes, envVars, file, storage, memVars, cliVars, inflight, histVars>>

\* run(), lines 509-514: _load_config raises on a missing or bad file.
TickReloadFails ==
    /\ pc = "tick"
    /\ running
    /\ ReloadDue
    /\ cur' = now
    /\ trail' = <<"raise">>
    /\ Caught
    /\ UNCHANGED <<sessionVars, codecVars, polRes, envVars, file, storage, running, cfg, lastCfgCheck, lbt, lrm, st,
                   saveBuf, ret, retRes, cliVars, inflight, lastReboot, dupReboot,
                   notified>>

\* run(), lines 509-556: the reload, the idle branch, the due check.
TickBegin ==
    /\ pc = "tick"
    /\ running
    /\ cur' = now
    /\ cfg' \in TickConfigs
    /\ lastCfgCheck' = IF ReloadDue THEN now ELSE lastCfgCheck
    /\ IF ~IsAutomaticBackupEnabled(cfg')
       THEN /\ Sleep
            /\ trail' = <<"idle">>
            /\ inflight' = inflight
       ELSE IF BackupDue(now, lbt)
       THEN /\ pc' = "backup"
            /\ asleepAt' = asleepAt
            /\ trail' = <<"backup">>
            /\ inflight' = inflight \cup {"scheduled"}
       ELSE /\ pc' = "rebootchk"
            /\ asleepAt' = asleepAt
            /\ trail' = <<>>
            /\ inflight' = inflight
    /\ UNCHANGED <<sessionVars, codecVars, polRes, envVars, file, storage, running, lbt, lrm, st, saveBuf, ret, retRes,
                   cliVars, lastReboot, dupReboot, notified>>

\* run_scheduled_backup, lines 424-430: the backup executor returns the
\* name of the archive it stored.
BackupSucceeds ==
    /\ pc = "backup"
    /\ CanStore(GenerateBackupName("auto", now))
    /\ storage' = storage \cup {GenerateBackupName("auto", now)}
    /\ trail' = Append(trail, "ok")
    /\ inflight' = inflight \ {"scheduled"}
    /\ pc' = "retention"
    /\ UNCHANGED <<sessionVars, codecVars, polRes, envVars, file, memVars, cliVars, lastReboot, dupReboot, notified>>

\* run_scheduled_backup, lines 424 and 456-465: the executor returns None
\* and the failure mail is sent.
BackupFails ==
    /\ pc = "backup"
    /\ trail' = Append(trail, "fail")
    /\ inflight' = inflight \ {"scheduled"}
    /\ pc' = "persist"
    /\ UNCHANGED <<sessionVars, codecVars, polRes, envVars, file, storage, memVars, cliVars, lastReboot, dupReboot,
                   notified>>

\* run_scheduled_backup, line 424: the call raises.  It passes send_email,
\* a keyword that run_backup (backup.py, line 156) does not take.
BackupRaises ==
    /\ pc = "backup"
    /\ trail' = Append(trail, "raise")
    /\ inflight' = inflight \ {"scheduled"}
    /\ Caught
    /\ UNCHANGED <<sessionVars, codecVars, polRes, envVars, file, storage, running, cfg, lastCfgCheck, cur, lbt, lrm, st,
                   saveBuf, ret, retRes, cliVars, lastReboot, dupReboot, notified>>

\* What a retention pass at time t can leave of the store S, and what it
\* returns.
RetentionResults(S, t) ==
    UNION {{[store |-> S \ D,
             res |-> IF RetentionReturnsCount(view) THEN Cardinality(D) ELSE None] :
            D \in Deleted(RetentionEligible(view, t))} : view \in Listings(S)}

\* apply_retention_policy, as called at line 432.
RetentionPass ==
    /\ pc = "retention"
    /\ \E r \in RetentionResults(storage, now) :
          /\ storage' = r.store
          /\ retRes' = r.res
    /\ trail' = Append(trail, "retention")
    /\ pc' = "cleanup"
    /\ UNCHANGED <<sessionVars, codecVars, polRes, envVars, file, running, cfg, lastCfgCheck, cur, lbt, lrm, st, saveBuf,
                   ret, asleepAt, cliVars, inflight, lastReboot, dupReboot, notified>>

\* What a cleanup pass at time t can leave of the store S.
CleanupResults(S, t) ==
    IF CleanupRuns
    THEN UNION {UNION {{S \ D : D \in Deleted(CleanupEligible(view, t, keep))} :
                       keep \in KeepChoices(view, t)} : view \in Listings(S)}
    ELSE {S}

\* apply_cleanup_policy, as called at line 436, then lines 438-451: the
\* two counts are added (a TypeError when retention returned None) and the
\* success mail is sent.
CleanupPass ==
    /\ pc = "cleanup"
    /\ storage' \in CleanupResults(storage, now)
    /\ trail' = Append(trail, "cleanup")
    /\ retRes' = None
    /\ IF retRes = None
       THEN Caught
       ELSE pc' = "persist" /\ asleepAt' = asleepAt
    /\ UNCHANGED <<sessionVars, codecVars, polRes, envVars, file, running, cfg, lastCfgCheck, cur, lbt, lrm, st, saveBuf,
                   ret, cliVars, inflight, lastReboot, dupReboot, notified>>

\* A retention or cleanup pass raises: listing the local storage directory
\* is not guarded.
PolicyRaises ==
    /\ pc \in {"retention", "cleanup"}
    /\ trail' = Append(trail, "raise")
    /\ retRes' = None
    /\ Caught
    /\ UNCHANGED <<sessionVars, codecVars, polRes, envVars, file, storage, running, cfg, lastCfgCheck, cur, lbt, lrm, st,
                   saveBuf, ret, cliVars, inflight, lastReboot, dupReboot, notified>>

\* run(), lines 559-565.
PersistBackupTime ==
    /\ pc = "persist"
    /\ lbt' = cur
    /\ SaveState([LoadState(file) EXCEPT !.lbt = cur, !.lrm = lrm], "rebootchk")
    /\ trail' = Append(trail, "persist")
    /\ UNCHANGED <<sessionVars, codecVars, polRes, envVars, storage, running, cfg, lastCfgCheck, cur, lrm, st, asleepAt,
                   retRes, cliVars, inflight, lastReboot, dupReboot, notified>>

RebootWanted ==
    /\ IsAutomaticRebootEnabled(cfg)
    /\ ShouldRebootNow(now)
    /\ lrm # MonthKey(now)

\* run(), lines 574-586: the month is recorded and saved before the reboot.
RebootCheckSaves ==
    /\ pc = "rebootchk"
    /\ RebootWanted
    /\ lrm' = MonthKey(now)
    /\ SaveState([LoadState(file) EXCEPT !.lbt = lbt, !.lrm = MonthKey(now)], "reboot1")
    /\ UNCHANGED <<sessionVars, codecVars, polRes, envVars, storage, running, cfg, lastCfgCheck, cur, lbt, st, asleepAt,
                   retRes, cliVars, inflight, histVars>>

\* run(), lines 574-590: no reboot now; the loop sleeps.
RebootCheckSkips ==
    /\ pc = "rebootchk"
    /\ ~RebootWanted
    /\ Sleep
    /\ UNCHANGED <<sessionVars, codecVars, polRes, envVars, file, storage, running, cfg, lastCfgCheck, cur, lbt, lrm, st,
                   saveBuf, ret, retRes, cliVars, inflight, histVars>>

\* perform_reboot, lines 170-175.
PerformRebootSave ==
    /\ pc = "reboot1"
    /\ SaveState([LoadState(file) EXCEPT !.pend = now], "reboot2")
    /\ notified' = 0
    /\ UNCHANGED <<sessionVars, codecVars, polRes, envVars, storage, running, cfg, lastCfgCheck, cur, lbt, lrm, st,
                   asleepAt, retRes, cliVars, inflight, trail, lastReboot, dupReboot>>

\* perform_reboot, lines 180-198, then run(), line 590: the reboot command
\* is run.  The host goes down some time later (Kill).
PerformRebootIssue ==
    /\ pc = "reboot2"
    /\ lastReboot' = MonthKey(now)
    /\ dupReboot' = (dupReboot \/ lastReboot = MonthKey(now))
    /\ trail' = Append(trail, "reboot")
    /\ Sleep
    /\ UNCHANGED <<sessionVars, codecVars, polRes, envVars, file, storage, running, cfg, lastCfgCheck, cur, lbt, lrm, st,
                   saveBuf, ret, retRes, cliVars, inflight, notified>>

\* perform_reboot, lines 189-192 and 199-206: no reboot command, or it
\* fails; _handle_reboot_error mails the failure.
PerformRebootError ==
    /\ pc = "reboot2"
    /\ trail' = Append(trail, "rebooterror")
    /\ Sleep
    /\ UNCHANGED <<sessionVars, codecVars, polRes, envVars, file, storage, running, cfg, lastCfgCheck, cur, lbt, lrm, st,
                   saveBuf, ret, retRes, cliVars, inflight, lastReboot, dupReboot,
                   notified>>

SleepLength == IF pc = "backoff" THEN BackoffMinutes ELSE SleepMinutes

\* time.sleep returns, lines 525, 590 and 599.
WakeUp ==
    /\ pc \in {"sleep60", "backoff"}
    /\ now >= asleepAt + SleepLength
    /\ pc' = "tick"
    /\ asleepAt' = 0
    /\ cur' = 0
    /\ trail' = <<>>
    /\ UNCHANGED <<sessionVars, codecVars, polRes, envVars, file, storage, running, cfg, lastCfgCheck, lbt, lrm, st,
                   saveBuf, ret, retRes, cliVars, inflight, lastReboot, dupReboot,
                   notified>>

\* stop(): the external stop signal lowers the flag.  The flag is read at
\* the top of the loop only, so the signal is taken while the loop is
\* asleep.
Stop ==
    /\ pc \in {"sleep60", "backoff"}
    /\ running
    /\ running' = FALSE
    /\ UNCHANGED <<sessionVars, codecVars, polRes, envVars, file, storage, pc, cfg, lastCfgCheck, cur, lbt, lrm, st,
                   saveBuf, ret, asleepAt, retRes, cliVars, inflight, histVars>>

\* --------------------------------------------------- the operator's menu
\* handle_manual_backup, lines 132-148.
CliStartManual ==
    /\ cliPc = "menu"
    /\ cliPc' = "manual"
    /\ inflight' = inflight \cup {"manual"}
    /\ UNCHANGED <<sessionVars, codecVars, polRes, envVars, file, storage, pc, memVars, polPc, histVars>>

\* handle_manual_backup, lines 148-166: run_backup("manual") returns a
\* name, or None.
CliManualReturns ==
    /\ cliPc = "manual"
    /\ \/ /\ CanStore(GenerateBackupName("manual", now))
          /\ storage' = storage \cup {GenerateBackupName("manual", now)}
       \/ storage' = storage
    /\ cliPc' = "menu"
    /\ inflight' = inflight \ {"manual"}
    /\ UNCHANGED <<sessionVars, codecVars, polRes, envVars, file, pc, memVars, polPc, histVars>>

\* A restore started without waiting for the manual backup to return.
CliStartRestoreAnytime ==
    /\ cliPc \in {"menu", "manual"}
    /\ ListBackups(storage) # {}
    /\ cliPc' = "restore"
    /\ inflight' = inflight \cup {"restore"}
    /\ UNCHANGED <<sessionVars, codecVars, polRes, envVars, file, storage, pc, memVars, polPc, histVars>>

\* handle_restore_backup and _execute_restore: a listed backup is restored.
CliStartRestore ==
    /\ cliPc = "menu"
    /\ ListBackups(storage) # {}
    /\ cliPc' = "restore"
    /\ inflight' = inflight \cup {"restore"}
    /\ UNCHANGED <<sessionVars, codecVars, polRes, envVars, file, storage, pc, memVars, polPc, histVars>>

CliRestoreReturns ==
    /\ cliPc = "restore"
    /\ cliPc' = "menu"
    /\ inflight' = inflight \ {"restore"}
    /\ UNCHANGED <<sessionVars, codecVars, polRes, envVars, file, storage, pc, memVars, polPc, histVars>>

\* ------------------------------------------------ the --cleanup process
\* apply_retention_and_cleanup, lines 621-632: a one-shot process builds a
\* scheduler object and runs a retention pass.
PolicyRetention ==
    /\ polPc = "off"
    /\ \E r \in RetentionResults(storage, now) :
          /\ storage' = r.store
          /\ polRes' = r.res
    /\ polPc' = "cleanup"
    /\ UNCHANGED <<sessionVars, codecVars, envVars, file, pc, memVars, cliPc, inflight, histVars>>

\* apply_retention_and_cleanup, lines 633-641: the cleanup pass, and the
\* process ends.
PolicyCleanup ==
    /\ polPc = "cleanup"
    /\ storage' \in CleanupResults(storage, now)
    /\ polRes' = Cardinality(storage \ storage')
    /\ polPc' = "off"
    /\ UNCHANGED <<sessionVars, codecVars, envVars, file, pc, memVars, cliPc, inflight, histVars>>

\* ----------------------------------------------------- the specifications
\* The scheduler service from its start to its stop: the whole tick, with
\* the backup store.  The process is not killed.
Next ==
    \/ Advance
    \/ Start
    \/ Startup
    \/ SaveWrite
    \/ SaveWriteFails
    \/ TickStopped
    \/ TickReloadFails
    \/ TickBegin
    \/ BackupSucceeds
    \/ BackupFails
    \/ BackupRaises
    \/ RetentionPass
    \/ CleanupPass
    \/ PolicyRaises
    \/ PersistBackupTime
    \/ RebootCheckSaves
    \/ RebootCheckSkips
    \/ PerformRebootSave
    \/ PerformRebootIssue
    \/ PerformRebootError
    \/ WakeUp
    \/ Stop

Spec == Init /\ [][Next]_vars

\* stop() is called while a tick is under way: in the backup, in a
\* retention or cleanup pass, or between two steps of the tick.
StopInTick ==
    /\ pc \in {"backup", "retention", "cleanup", "persist", "rebootchk", "reboot1",
               "reboot2", "saving"}
    /\ running
    /\ running' = FALSE
    /\ UNCHANGED <<sessionVars, codecVars, polRes, envVars, file, storage, pc, cfg, lastCfgCheck, cur, lbt, lrm, st,
                   saveBuf, ret, asleepAt, retRes, cliVars, inflight, histVars>>

\* The scheduler service with a stop signal that can come at any time.
StopNext ==
    \/ Next
    \/ StopInTick

StopSpec == Init /\ [][StopNext]_vars

\* The scheduler service left to run: config.yml has automatic backups and
\* automatic reboot switched on and keeps them on, no stop signal comes,
\* every state write goes through and the reboot command is there and
\* works.
LiveInit ==
    /\ InitCommon
    /\ CodecOff
    /\ SessionOff
    /\ cfgOptions = {[ok |-> TRUE, backup |-> TRUE, reboot |-> TRUE]}
    /\ cleanupMode = "last_per_day"
    /\ storageType = "local"
    /\ retentionDays = RetentionDays
    /\ capacity = MaxArtifacts
    /\ storage = {}

\* The steps of the process.
LiveSteps ==
    \/ Start
    \/ Startup
    \/ SaveWrite
    \/ TickBegin
    \/ BackupSucceeds
    \/ BackupFails
    \/ BackupRaises
    \/ RetentionPass
    \/ CleanupPass
    \/ PersistBackupTime
    \/ RebootCheckSaves
    \/ RebootCheckSkips
    \/ PerformRebootSave
    \/ PerformRebootIssue
    \/ WakeUp

LiveNext ==
    \/ Advance
    \/ LiveSteps

\* The process is scheduled and takes its next step whenever it has one,
\* and the clock goes on.
LiveSpec ==
    /\ LiveInit
    /\ [][LiveNext]_vars
    /\ WF_vars(LiveSteps)
    /\ WF_vars(Advance)

\* The scheduler service over kills and restarts, with its state file,
\* while the storage takes no new archive: a due backup fails or raises.
CrashNext ==
    \/ Advance
    \/ Kill
    \/ Start
    \/ Startup
    \/ Notify
    \/ ClearPending
    \/ SaveWrite
    \/ SaveWriteFails
    \/ TickReloadFails
    \/ TickBegin
    \/ BackupFails
    \/ BackupRaises
    \/ PersistBackupTime
    \/ RebootCheckSaves
    \/ RebootCheckSkips
    \/ PerformRebootSave
    \/ PerformRebootIssue
    \/ PerformRebootError
    \/ WakeUp

CrashInit ==
    /\ InitCommon
    /\ CodecOff
    /\ SessionOff
    /\ cfgOptions = GoodConfigs
    /\ cleanupMode = "last_per_day"
    /\ storageType = "local"
    /\ retentionDays = 0
    /\ capacity = 0
    /\ storage = {}

CrashSpec == CrashInit /\ [][CrashNext]_vars

\* The scheduler service next to an operator at the menu.
ConcInit ==
    /\ InitCommon
    /\ CodecOff
    /\ SessionOff
    /\ cfgOptions = {[ok |-> TRUE, backup |-> TRUE, reboot |-> FALSE]}
    /\ cleanupMode = "last_per_day"
    /\ storageType = "local"
    /\ retentionDays = 0
    /\ capacity = MenuRoom
    /\ storage = {}

ConcNext ==
    \/ Advance
    \/ Start
    \/ Startup
    \/ SaveWrite
    \/ SaveWriteFails
    \/ TickReloadFails
    \/ TickBegin
    \/ BackupSucceeds
    \/ BackupFails
    \/ BackupRaises
    \/ RetentionPass
    \/ CleanupPass
    \/ PolicyRaises
    \/ PersistBackupTime
    \/ RebootCheckSkips
    \/ WakeUp
    \/ CliStartManual
    \/ CliManualReturns
    \/ CliStartRestore
    \/ CliRestoreReturns

ConcSpec == ConcInit /\ [][ConcNext]_vars

\* The backup store under the policies: the storage directory as found,
\* with archives of this server and of another, manual and automatic and
\* without a kind; the operator takes manual backups and runs --cleanup.
\* The storage has room for MaxFound files.
SomeNames == {ServerName \o InstanceType \o <<"auto">>,
              ServerName \o InstanceType \o <<"manual">>,
              ServerName \o InstanceType,
              OtherServer \o InstanceType \o <<"auto">>}

PolicyInit ==
    /\ InitCommon
    /\ CodecOff
    /\ SessionOff
    /\ cfgOptions = GoodConfigs
    /\ cleanupMode \in {"off", "last_per_day", "other"}
    /\ storageType \in {"local", "remote"}
    /\ retentionDays \in 0..RetentionDays
    /\ capacity = MaxFound
    /\ storage \in {S \in SUBSET [id : SomeNames, ts : 0..MaxFoundTime] :
                       Cardinality(S) <= MaxFound}

PolicyNext ==
    \/ Advance
    \/ CliStartManual
    \/ CliManualReturns
    \/ PolicyRetention
    \/ PolicyCleanup

PolicySpec == PolicyInit /\ [][PolicyNext]_vars

\* The backup store of the retention example: an automatic and a manual
\* backup of this server at each of the ages of Ages, in days, counted
\* back from the start of the clock, under the default retention.
Ages == {1, 10, 29, 30, 31, 100}

Aged(kind, a) == [id |-> ServerName \o InstanceType \o <<kind>>, ts |-> 0 - a * MinutesPerDay]

AgedStore == {Aged(k, a) : k \in {"auto", "manual"}, a \in Ages}

AgedInit ==
    /\ InitCommon
    /\ CodecOff
    /\ SessionOff
    /\ cfgOptions = GoodConfigs
    /\ cleanupMode \in {"off", "last_per_day"}
    /\ storageType = "local"
    /\ retentionDays = DefaultRetentionDays
    /\ capacity = Cardinality(AgedStore) + MenuRoom
    /\ storage = AgedStore

AgedSpec == AgedInit /\ [][PolicyNext]_vars

\* The file names: names built by generate_backup_name and in the old
\* layout from a server name, an instance type and a time, and names
\* found in the storage directory, all read by parse_backup_name.
ServerTexts == {<<"n", "g", "c", "p">>, <<"a", "u", "t", "o">>, <<"m", "y", "-", "s", "r", "v">>}

InstanceTexts == {<<"p", "r", "o">>, <<"m", "a", "n", "u", "a", "l">>, <<"s", "p", "-", "1">>}

Stamps ==
    {t \in [year : {2024, 2025}, month : {1, 2, 12}, day : {1, 9, 28, 29, 31},
            hour : {0, 9, 23}, minute : {0, 5, 59}] :
        t.day <= DaysInMonth(t.year, t.month)}

CodecInputs ==
    [server : ServerTexts, instance : InstanceTexts,
     kind : {AutoText, ManualText, NoKind}, time : Stamps]

\* Names as they may lie in the directory: zero to four identity pieces,
\* then an hour piece (or none), a minute_day piece, a month piece and a
\* year piece, each well-formed or not.
FoundIdentities == {<<>>, <<<<"n", "g", "c", "p">>>>, <<<<"n", "g", "c", "p">>, <<"p", "r", "o">>>>, <<<<"n", "g", "c", "p">>, <<"p", "r", "o">>, AutoText>>,
                    <<<<"m", "y">>, <<"s", "r", "v">>, <<"p", "r", "o">>, ManualText>>}

FoundHours == {<<>>} \cup {<<h>> : h \in {<<"1", "4">>, <<"7">>, <<"2", "4">>, <<"a", "b">>} \cup {<<>>}}

FoundMinuteDays == {<<"3", "0", "_", "1", "3">>, <<"3", "0", "1", "3">>, <<"3", "0", "_", "1", "3", "_", "0", "1">>, <<"6", "0", "_", "1", "3">>, <<"3", "0", "_", "3", "2">>, <<"3", "0", "_", "0", "0">>, <<"x", "x", "_", "1", "3">>, <<"5", "_", "1">>, <<"3", "0", "_", "3", "1">>, <<"3", "0", "_", "2", "9">>, <<"3", "0", "_", "3", "0">>, <<"_", "1", "3">>}

FoundMonths == {<<"0", "1">>, <<"0", "2">>, <<"0", "4">>, <<"1", "3">>, <<"1">>, <<"j", "a">>, <<"0", "0">>}

FoundYears == {<<"2", "0", "2", "6">>, <<"2", "0", "2", "4">>, <<"2", "6">>, <<"2", "0", "2", "6", "1">>, <<"a", "b", "c", "d">>, <<"0", "0", "0", "0">>}

FoundNames ==
    {Join(id \o h \o <<md, mo, y>>, "-") \o ZipExt :
        id \in FoundIdentities, h \in FoundHours, md \in FoundMinuteDays,
        mo \in FoundMonths, y \in FoundYears}

CodecInit ==
    /\ InitCommon
    /\ SessionOff
    /\ cfgOptions = GoodConfigs
    /\ cleanupMode = "last_per_day"
    /\ storageType = "local"
    /\ retentionDays = 0
    /\ capacity = MaxArtifacts
    /\ storage = {}
    /\ decoded = NoArtifact
    /\ \/ /\ codecPc = "fields"
          /\ fields \in CodecInputs
          /\ fname = <<>>
       \/ /\ codecPc = "named"
          /\ fields = NoFields
          /\ fname \in FoundNames

\* generate_backup_name
GenerateName ==
    /\ codecPc = "fields"
    /\ fields.kind # NoKind
    /\ fname' = GenerateFileName(fields.server, fields.instance, fields.kind, fields.time)
    /\ codecPc' = "named"
    /\ UNCHANGED <<sessionVars, envVars, file, storage, pc, memVars, cliVars, polRes, inflight,
                   fields, decoded, histVars>>

\* A release before the kind segment names the file.
LegacyName ==
    /\ codecPc = "fields"
    /\ fields.kind = NoKind
    /\ fname' = LegacyFileName(fields.server, fields.instance, fields.time)
    /\ codecPc' = "named"
    /\ UNCHANGED <<sessionVars, envVars, file, storage, pc, memVars, cliVars, polRes, inflight,
                   fields, decoded, histVars>>

\* parse_backup_name
ParseName ==
    /\ codecPc = "named"
    /\ decoded' = ParseFileName(fname)
    /\ codecPc' = "parsed"
    /\ UNCHANGED <<sessionVars, envVars, file, storage, pc, memVars, cliVars, polRes, inflight,
                   fields, fname, histVars>>

CodecNext ==
    \/ GenerateName
    \/ LegacyName
    \/ ParseName

CodecSpec == CodecInit /\ [][CodecNext]_vars

\* ------------------------------------------------------------ the listing
\* str.endswith
EndsWith(s, suffix) ==
    /\ Len(s) >= Len(suffix)
    /\ SubSeq(s, Len(s) - Len(suffix) + 1, Len(s)) = suffix

\* The order of datetime values.
DateKey(d) == (((d.year * 13 + d.month) * 32 + d.day) * 24 + d.hour) * 60 + d.minute

\* One step of the stable sort: b, found after everything in sorted, goes
\* behind the entries that are as new as b or newer.
RECURSIVE InsertNewestFirst(_, _)
InsertNewestFirst(sorted, b) ==
    IF sorted = <<>> THEN <<b>>
    ELSE IF DateKey(Head(sorted).datetime) >= DateKey(b.datetime)
         THEN <<Head(sorted)>> \o InsertNewestFirst(Tail(sorted), b)
         ELSE <<b>> \o sorted

RECURSIVE SortNewestFirst(_)
\* The entries left in the order in which they were found.
SortAsFound(backups) == backups

\* backups.sort(key=lambda x: x['datetime'], reverse=True)
SortNewestFirst(backups) ==
    IF backups = <<>> THEN <<>>
    ELSE InsertNewestFirst(SortNewestFirst(SubSeq(backups, 1, Len(backups) - 1)),
                           backups[Len(backups)])

\* The loop of _list_backups_local and _list_backups_remote: the names
\* ending in .zip are parsed, and those parse_backup_name returns None for
\* are left out.  (The path and the size added to each entry are not
\* modelled.)
RECURSIVE Gathered(_)
Gathered(entries) ==
    IF entries = <<>> THEN <<>>
    ELSE LET metadata == ParseFileName(Head(entries))
         IN  IF EndsWith(Head(entries), ZipExt) /\ metadata.valid
             THEN <<metadata>> \o Gathered(Tail(entries))
             ELSE Gathered(Tail(entries))

\* _list_backups_local and _list_backups_remote, when the storage answers.
ListBackupFiles(entries) == SortNewestFirst(Gathered(entries))

\* The directory: names of either layout, two of the same minute, one of
\* an impossible day, one too short, and one that is not an archive.
MaxDir == 3

DirNames ==
    {Join(<<<<"n", "g", "c", "p">>, <<"p", "r", "o">>, <<"a", "u", "t", "o">>, <<"1", "4">>, <<"3", "0", "_", "1", "3">>, <<"0", "1">>, <<"2", "0", "2", "6">>>>,
          "-") \o ZipExt,
     Join(<<<<"n", "g", "c", "p">>, <<"p", "r", "o">>, <<"m", "a", "n", "u", "a", "l">>, <<"1", "4">>, <<"3", "0", "_", "1", "3">>, <<"0", "1">>, <<"2", "0", "2", "6">>>>,
          "-") \o ZipExt,
     Join(<<<<"n", "g", "c", "p">>, <<"p", "r", "o">>, <<"a", "u", "t", "o">>, <<"7">>, <<"0", "5", "_", "0", "2">>, <<"1", "2">>, <<"2", "0", "2", "5">>>>,
          "-") \o ZipExt,
     Join(<<<<"l", "a", "b">>, <<"p", "r", "o">>, <<"0", "9">>, <<"0", "0", "_", "2", "8">>, <<"0", "2">>, <<"2", "0", "2", "6">>>>,
          "-") \o ZipExt,
     Join(<<<<"n", "g", "c", "p">>, <<"p", "r", "o">>, <<"a", "u", "t", "o">>, <<"1", "4">>, <<"3", "0", "_", "3", "2">>, <<"0", "1">>, <<"2", "0", "2", "6">>>>,
          "-") \o ZipExt,
     Join(<<<<"n", "g", "c", "p">>, <<"p", "r", "o">>, <<"a", "u", "t", "o">>, <<"1", "4">>, <<"3", "0", "_", "1", "4">>, <<"0", "1">>, <<"2", "0", "2", "6">>>>,
          "-") \o <<".", "t", "x", "t">>,
     Join(<<<<"n", "o", "t", "e", "s">>>>,
          "-") \o ZipExt}

Directories ==
    {d \in UNION {[1..n -> DirNames] : n \in 0..MaxDir} :
        \A i, j \in 1..Len(d) : i # j => d[i] # d[j]}

ListInit ==
    /\ InitCommon
    /\ CodecOff
    /\ RunOff
    /\ MenuOff
    /\ BakOff
    /\ cfgOptions = GoodConfigs
    /\ cleanupMode = "last_per_day"
    /\ storageType \in {"local", "remote"}
    /\ retentionDays = 0
    /\ capacity = 0
    /\ storage = {}
    /\ listPc = "dir"
    /\ dirEntries \in Directories
    /\ listed = <<>>

\* list_backups: the storage answers every request.
ListAnswered ==
    /\ listPc = "dir"
    /\ listed' = ListBackupFiles(dirEntries)
    /\ listPc' = "listed"
    /\ UNCHANGED <<runVars, menuVars, bakVars, codecVars, envVars, file, storage, pc, memVars, cliVars, polRes,
                   inflight, dirEntries, histVars>>

\* _list_backups_local, lines 367 and 373: os.listdir or os.path.getsize
\* raises, and so does list_backups.
ListLocalRaises ==
    /\ listPc = "dir"
    /\ storageType = "local"
    /\ listPc' = "raised"
    /\ UNCHANGED <<runVars, menuVars, bakVars, codecVars, envVars, file, storage, pc, memVars, cliVars, polRes,
                   inflight, dirEntries, listed, histVars>>

\* _list_backups_remote, lines 388-415: the connection or nlst raises
\* before the loop, or quit raises after it; what was gathered by then is
\* returned as it stands, not sorted.
ListRemoteCutShort ==
    /\ listPc = "dir"
    /\ storageType = "remote"
    /\ \E n \in {0, Len(dirEntries)} :
          listed' = Gathered(SubSeq(dirEntries, 1, n))
    /\ listPc' = "cut"
    /\ UNCHANGED <<runVars, menuVars, bakVars, codecVars, envVars, file, storage, pc, memVars, cliVars, polRes,
                   inflight, dirEntries, histVars>>

ListNext ==
    \/ ListAnswered
    \/ ListLocalRaises
    \/ ListRemoteCutShort

ListSpec == ListInit /\ [][ListNext]_vars

\* -------------------------------------------------------- the restore run
outsideRun == <<listVars, menuVars, bakVars, codecVars, envVars, file, storage, pc, memVars, cliVars,
                polRes, inflight, histVars>>

StageOrder == <<"save_key", "fetch", "config", "patch_key", "firewall",
                "apply1", "database", "apply2", "clean">>

\* The stage is done and the next one is due.
Completed(stage, next) ==
    /\ stages' = Append(stages, stage)
    /\ rPc' = next

\* The handler goes on to the next stage as if nothing had happened.
FailedGoesOn ==
    /\ rPc' = StageOrder[(CHOOSE i \in 1..8 : StageOrder[i] = rPc) + 1]
    /\ result' = result
    /\ cleanups' = cleanups
    /\ tempkey' = tempkey

\* run_restore, lines 545-563: the stage raised; clean_tmp is tried, it
\* empties the staging directory or raises itself, and False is returned.
Failed ==
    /\ rPc' = "returned"
    /\ result' = "False"
    /\ cleanups' = cleanups + 1
    /\ tempkey' \in {NoFile, tempkey}

\* original_key is not None and not empty.
Truthy(key) == key # NoKey /\ key # <<>>

\* run_restore, lines 414-421.
SaveKey ==
    /\ rPc = "save_key"
    /\ IF ~rArgs.preserve
       THEN /\ rPc' = "fetch"
            /\ UNCHANGED <<tempkey, originalKey, result, stages, cleanups>>
       ELSE LET key == ExtractKey(live["constants.yml"], TargetKeyLine)
            IN  IF key = Raised
                THEN /\ Failed
                     /\ UNCHANGED <<originalKey, stages>>
                ELSE /\ originalKey' = key
                     /\ tempkey' = SaveKeyToTemp(key)
                     /\ Completed("save_key", "fetch")
                     /\ UNCHANGED <<result, cleanups>>
    /\ UNCHANGED <<outsideRun, rArgs, keyLineCfg, fwLineCfg, live, db, artifact, liveAtCall>>

\* run_restore, lines 423-450: the archive is copied to the staging
\* directory and unpacked there.
FetchSucceeds ==
    /\ rPc = "fetch"
    /\ Completed("fetch", "config")
    /\ UNCHANGED <<outsideRun, rArgs, keyLineCfg, fwLineCfg, live, db, artifact, tempkey,
                   originalKey, result, cleanups, liveAtCall>>

\* download_backup_to_tmp returns None, or unzip_backup raises.
FetchFails ==
    /\ rPc = "fetch"
    /\ Failed
    /\ UNCHANGED <<outsideRun, rArgs, keyLineCfg, fwLineCfg, live, db, artifact,
                   originalKey, stages, liveAtCall>>

\* run_restore, lines 452-463.
ReplaceConfigSucceeds ==
    /\ rPc = "config"
    /\ live' = RestoreNgcpConfig(live, artifact)
    /\ Completed("config", "patch_key")
    /\ UNCHANGED <<outsideRun, rArgs, keyLineCfg, fwLineCfg, db, artifact, tempkey,
                   originalKey, result, cleanups, liveAtCall>>

\* restore_ngcp_config raises: the archive has no ngcp-config/, or a copy
\* fails after some items were put in place.
ReplaceConfigFails ==
    /\ rPc = "config"
    /\ \E done \in SUBSET FileNames : live' = RestoreItems(live, artifact, done)
    /\ Failed
    /\ UNCHANGED <<outsideRun, rArgs, keyLineCfg, fwLineCfg, db, artifact,
                   originalKey, stages, liveAtCall>>

\* run_restore, lines 466-476.
PatchKey ==
    /\ rPc = "patch_key"
    /\ IF ~(rArgs.preserve /\ Truthy(originalKey))
       THEN /\ rPc' = "firewall"
            /\ UNCHANGED <<live, tempkey, result, stages, cleanups>>
       ELSE LET r == RestoreKeyIntoConstants(tempkey, live["constants.yml"], TargetKeyLine)
            IN  IF r.ok
                THEN /\ live' = [live EXCEPT !["constants.yml"] = r.file]
                     /\ Completed("patch_key", "firewall")
                     /\ UNCHANGED <<tempkey, result, cleanups>>
                ELSE /\ Failed
                     /\ UNCHANGED <<live, stages>>
    /\ UNCHANGED <<outsideRun, rArgs, keyLineCfg, fwLineCfg, db, artifact, originalKey,
                   liveAtCall>>

\* run_restore, lines 478-487.
PatchFirewall ==
    /\ rPc = "firewall"
    /\ IF ~rArgs.firewall
       THEN /\ rPc' = "apply1"
            /\ UNCHANGED <<live, tempkey, result, stages, cleanups>>
       ELSE LET r == DisableFirewallInConfig(live["config.yml"], FirewallEnableLine)
            IN  IF r.ok
                THEN /\ live' = [live EXCEPT !["config.yml"] = r.file]
                     /\ Completed("firewall", "apply1")
                     /\ UNCHANGED <<tempkey, result, cleanups>>
                ELSE /\ Failed
                     /\ UNCHANGED <<live, stages>>
    /\ UNCHANGED <<outsideRun, rArgs, keyLineCfg, fwLineCfg, db, artifact, originalKey,
                   liveAtCall>>

\* run_restore, lines 489-493 and 501-505: ngcpcfg apply returns 0.
ApplySucceeds ==
    /\ rPc \in {"apply1", "apply2"}
    /\ Completed(rPc, IF rPc = "apply1" THEN "database" ELSE "clean")
    /\ UNCHANGED <<outsideRun, rArgs, keyLineCfg, fwLineCfg, live, db, artifact, tempkey,
                   originalKey, result, cleanups, liveAtCall>>

\* _run_command, lines 98-102: ngcpcfg apply returns another code.
ApplyFails ==
    /\ rPc \in {"apply1", "apply2"}
    /\ Failed
    /\ UNCHANGED <<outsideRun, rArgs, keyLineCfg, fwLineCfg, live, db, artifact,
                   originalKey, stages, liveAtCall>>

\* run_restore, lines 495-499: mysql reads the dump.
DatabaseSucceeds ==
    /\ rPc = "database"
    /\ db' = "backup"
    /\ Completed("database", "apply2")
    /\ UNCHANGED <<outsideRun, rArgs, keyLineCfg, fwLineCfg, live, artifact, tempkey,
                   originalKey, result, cleanups, liveAtCall>>

\* restore_mysql_database raises: database.sql is not in the archive, or
\* mysql stops part of the way through it.
DatabaseFails ==
    /\ rPc = "database"
    /\ db' \in {db, "partial"}
    /\ Failed
    /\ UNCHANGED <<outsideRun, rArgs, keyLineCfg, fwLineCfg, live, artifact,
                   originalKey, stages, liveAtCall>>

\* run_restore, lines 507-543: the staging directory is emptied, the
\* operator answers the reboot question, and True is returned.
CleanSucceeds ==
    /\ rPc = "clean"
    /\ tempkey' = NoFile
    /\ cleanups' = cleanups + 1
    /\ result' = "True"
    /\ Completed("clean", "returned")
    /\ UNCHANGED <<outsideRun, rArgs, keyLineCfg, fwLineCfg, live, db, artifact,
                   originalKey, liveAtCall>>

\* clean_tmp raises at line 510, and the handler tries it once more.
CleanFails ==
    /\ rPc = "clean"
    /\ rPc' = "returned"
    /\ result' = "False"
    /\ cleanups' = cleanups + 2
    /\ tempkey' \in {NoFile, tempkey}
    /\ UNCHANGED <<outsideRun, rArgs, keyLineCfg, fwLineCfg, live, db, artifact,
                   originalKey, stages, liveAtCall>>

RestoreNext ==
    \/ SaveKey
    \/ FetchSucceeds
    \/ FetchFails
    \/ ReplaceConfigSucceeds
    \/ ReplaceConfigFails
    \/ PatchKey
    \/ PatchFirewall
    \/ ApplySucceeds
    \/ ApplyFails
    \/ DatabaseSucceeds
    \/ DatabaseFails
    \/ CleanSucceeds
    \/ CleanFails

\* The lines of constants.yml on the live instance and in the backup: key
\* lines, flush or indented, one with an empty value, and another entry.
LiveKeyLine == <<"k", "e", "y", ":", " ", "a", "1">>

LiveKeyLineIndented == <<" ", " ", "k", "e", "y", ":", " ", " ", "b", "2", " ">>

EmptyKeyLine == <<" ", " ", "k", "e", "y", ":">>

BackupKeyLine == <<"k", "e", "y", ":", " ", "z", "9">>

BackupKeyLineIndented == <<" ", " ", " ", " ", "k", "e", "y", ":", " ", "y", "8">>

OtherLine == <<"n", "a", "m", "e", ":", " ", "x">>

\* The lines of config.yml in the backup.
EnableYesLine == <<" ", " ", "e", "n", "a", "b", "l", "e", ":", " ", "y", "e", "s">>

EnableNoLine == <<"e", "n", "a", "b", "l", "e", ":", " ", "n", "o">>

PortLine == <<"p", "o", "r", "t", ":", " ", "1">>

\* A file of n lines, all empty but the last.
Padded(n, line) == [i \in 1..n |-> IF i = n THEN line ELSE <<>>]

ShortLiveSecrets ==
    {File(<<LiveKeyLine>>), File(<<OtherLine, LiveKeyLineIndented>>),
     File(<<OtherLine, EmptyKeyLine>>), File(<<OtherLine>>),
     File(<<LiveKeyLine, OtherLine>>), NoFile}

ShortBackupSecrets ==
    {File(<<BackupKeyLine>>), File(<<OtherLine, BackupKeyLineIndented>>),
     File(<<OtherLine>>), File(<<BackupKeyLine, OtherLine>>),
     File(<<OtherLine, OtherLine, BackupKeyLine>>), NoFile}

ShortBackupPolicies ==
    {File(<<EnableYesLine>>), File(<<PortLine, EnableNoLine>>), File(<<PortLine>>)}

LiveNetwork == File(<<<<"l", "i", "v", "e">>>>)

BackupNetwork == File(<<<<"s", "o", "u", "r", "c", "e">>>>)

\* run_restore is called, with the line numbers as config.yml gives them
\* (0 to 3, or not at all), on an instance and for a backup whose files
\* are short or as long as the default line numbers.
RestoreInit ==
    /\ InitCommon
    /\ CodecOff
    /\ ListOff
    /\ MenuOff
    /\ BakOff
    /\ cfgOptions = GoodConfigs
    /\ cleanupMode = "last_per_day"
    /\ storageType = "local"
    /\ retentionDays = 0
    /\ capacity = 0
    /\ storage = {}
    /\ rPc = "save_key"
    /\ rArgs \in [preserve : BOOLEAN, firewall : BOOLEAN]
    /\ \E liveSecrets \in ShortLiveSecrets \cup {File(Padded(DefaultKeyLine, LiveKeyLine))},
          backupSecrets \in ShortBackupSecrets
                              \cup {File(Padded(DefaultKeyLine, BackupKeyLineIndented))},
          backupPolicy \in ShortBackupPolicies
                              \cup {File(Padded(DefaultFirewallLine, EnableYesLine))},
          backupNetwork \in {BackupNetwork, NoFile} :
          /\ keyLineCfg \in {Missing} \cup 0..3
          /\ fwLineCfg \in {Missing} \cup 0..2
          /\ keyLineCfg # Missing =>
                liveSecrets \in ShortLiveSecrets /\ backupSecrets \in ShortBackupSecrets
          /\ fwLineCfg # Missing => backupPolicy \in ShortBackupPolicies
          /\ ~rArgs.preserve => keyLineCfg = 1 /\ liveSecrets = File(<<LiveKeyLine>>)
          /\ ~rArgs.firewall => fwLineCfg = 1 /\ backupPolicy = File(<<EnableYesLine>>)
          /\ live = [f \in FileNames |->
                        IF f = "constants.yml" THEN liveSecrets
                        ELSE IF f = "config.yml" THEN File(<<EnableNoLine>>)
                        ELSE LiveNetwork]
          /\ artifact = [f \in FileNames |->
                        IF f = "constants.yml" THEN backupSecrets
                        ELSE IF f = "config.yml" THEN backupPolicy
                        ELSE backupNetwork]
    /\ db = "live"
    /\ tempkey = NoFile
    /\ originalKey = NoKey
    /\ result = "pending"
    /\ stages = <<>>
    /\ cleanups = 0
    /\ liveAtCall = live

RestoreSpec == RestoreInit /\ [][RestoreNext]_vars

\* ------------------------------------------------------------ run_backup
\* run_backup (backup.py) step by step over the staging directory, which
\* the backup shares with a restore: the working directory, the copy of
\* /etc/ngcp-config and the dump inside it, and the zip file next to it.
\* mysqldump and the storage are taken by their outcome.  clean_tmp
\* (storage.py) removes the staging directory with all that is in it, the
\* restore's side-file included, or raises.  What a restore's own cleanup
\* does to the files of a backup is not followed.
restoreStaysPut == <<rPc, rArgs, keyLineCfg, fwLineCfg, live, db, artifact, originalKey,
                     result, stages, cleanups, liveAtCall>>

outsideBackup == <<listVars, menuVars, codecVars, envVars, file, pc, memVars, cliVars,
                   polRes, inflight, histVars, restoreStaysPut>>

\* The handler returns None and leaves the staging directory as it is.
BackupFailedNoCleanup(residue) ==
    /\ bPc' = "returned"
    /\ bRet' = "None"
    /\ staged' = residue
    /\ tempkey' = tempkey
    /\ cleanRaised' = cleanRaised

\* run_backup, lines 231-250: a step raised with residue in the staging
\* directory; clean_tmp is tried, and an exception of it is dropped; the
\* failure mail is sent for an automatic backup; None is returned.
BackupFailed(residue) ==
    /\ bPc' = "returned"
    /\ bRet' = "None"
    /\ \E gone \in BOOLEAN :
          /\ staged' = IF gone THEN {} ELSE residue
          /\ tempkey' = IF gone THEN NoFile ELSE tempkey
          /\ cleanRaised' = (cleanRaised \/ ~gone)

\* run_backup, lines 182-185, and _create_backup_directory.
CreateBackupDirectory ==
    /\ bPc = "mkdir"
    /\ staged' = staged \cup {"workdir"}
    /\ bPc' = "config"
    /\ UNCHANGED <<outsideBackup, storage, tempkey, backupType, backupFilename, archive,
                   saved, bRet, cleanRaised>>

\* mkdir raises.
CreateBackupDirectoryFails ==
    /\ bPc = "mkdir"
    /\ BackupFailed(staged)
    /\ UNCHANGED <<outsideBackup, storage, backupType, backupFilename, archive, saved>>

\* run_backup, lines 187-192, and _backup_ngcp_config: the tree is copied;
\* or /etc/ngcp-config is not there, or copytree raises before or after
\* it has copied anything: False is returned, a warning printed, and the
\* backup goes on.
BackupNgcpConfig ==
    /\ bPc = "config"
    /\ staged' \in (IF live = NoTree THEN {staged}
                    ELSE {staged \cup {"ngcp-config"}, staged})
    /\ bPc' = "dump"
    /\ UNCHANGED <<outsideBackup, storage, tempkey, backupType, backupFilename, archive,
                   saved, bRet, cleanRaised>>

\* run_backup, lines 194-196, and _dump_mysql_database: mysqldump returns 0.
DumpMysqlDatabase ==
    /\ bPc = "dump"
    /\ staged' = staged \cup {"database.sql"}
    /\ bPc' = "zip"
    /\ UNCHANGED <<outsideBackup, storage, tempkey, backupType, backupFilename, archive,
                   saved, bRet, cleanRaised>>

\* mysqldump returns another code, the shell having created database.sql;
\* lines 197-198: a failed dump aborts the backup.
DumpMysqlDatabaseFails ==
    /\ bPc = "dump"
    /\ BackupFailed(staged \cup {"database.sql"})
    /\ UNCHANGED <<outsideBackup, storage, backupType, backupFilename, archive, saved>>

\* run_backup, lines 200-209, generate_backup_name and zip_directory: the
\* files of the working directory are zipped into the staging directory.
ZipDirectory ==
    /\ bPc = "zip"
    /\ backupFilename' = GenerateBackupName(backupType, now)
    /\ archive' = staged \cap Parts
    /\ staged' = staged \cup {"archive"}
    /\ bPc' = "save"
    /\ UNCHANGED <<outsideBackup, storage, tempkey, backupType, saved, bRet, cleanRaised>>

\* zip_directory raises, before or after it has created the zip file.
ZipDirectoryFails ==
    /\ bPc = "zip"
    /\ \E residue \in {staged, staged \cup {"archive"}} : BackupFailed(residue)
    /\ UNCHANGED <<outsideBackup, storage, backupType, backupFilename, archive, saved>>

\* run_backup, lines 211-219: save_backup returns True.
SaveBackup ==
    /\ bPc = "save"
    /\ CanStore(backupFilename)
    /\ storage' = storage \cup {backupFilename}
    /\ saved' = [there |-> TRUE, parts |-> archive]
    /\ bPc' = "clean"
    /\ UNCHANGED <<outsideBackup, tempkey, backupType, staged, backupFilename, archive,
                   bRet, cleanRaised>>

\* save_backup returns False, lines 216-217.
SaveBackupFails ==
    /\ bPc = "save"
    /\ BackupFailed(staged)
    /\ UNCHANGED <<outsideBackup, storage, backupType, backupFilename, archive, saved>>

\* run_backup, lines 221-229, and clean_tmp: the staging directory is
\* removed and made anew, and the file name is returned.
CleanTmp ==
    /\ bPc = "clean"
    /\ staged' = {}
    /\ tempkey' = NoFile
    /\ bRet' = "name"
    /\ bPc' = "returned"
    /\ UNCHANGED <<outsideBackup, storage, backupType, backupFilename, archive, saved,
                   cleanRaised>>

\* clean_tmp raises at line 223, inside the try: the handler tries it
\* once more and returns None, the artifact being in the storage.
CleanTmpRaises ==
    /\ bPc = "clean"
    /\ bPc' = "returned"
    /\ bRet' = "None"
    /\ cleanRaised' = TRUE
    /\ \E gone \in BOOLEAN :
          /\ staged' = IF gone THEN {} ELSE staged
          /\ tempkey' = IF gone THEN NoFile ELSE tempkey
    /\ UNCHANGED <<outsideBackup, storage, backupType, backupFilename, archive, saved>>

BackupRunNext ==
    \/ CreateBackupDirectory
    \/ CreateBackupDirectoryFails
    \/ BackupNgcpConfig
    \/ DumpMysqlDatabase
    \/ DumpMysqlDatabaseFails
    \/ ZipDirectory
    \/ ZipDirectoryFails
    \/ SaveBackup
    \/ SaveBackupFails
    \/ CleanTmp
    \/ CleanTmpRaises

\* A configuration tree on the instance.
SomeTree ==
    [f \in FileNames |->
        IF f = "constants.yml" THEN File(<<LiveKeyLine>>)
        ELSE IF f = "config.yml" THEN File(<<EnableNoLine>>)
        ELSE LiveNetwork]

\* run_backup is called, from the menu or by the scheduler, on an
\* instance with or without /etc/ngcp-config, the storage having room for
\* the archive or not.
BackupInit ==
    /\ InitCommon
    /\ CodecOff
    /\ ListOff
    /\ MenuOff
    /\ cfgOptions = GoodConfigs
    /\ cleanupMode = "last_per_day"
    /\ storageType = "local"
    /\ retentionDays = 0
    /\ capacity \in 0..MenuRoom
    /\ storage = {}
    /\ rPc = "off"
    /\ rArgs = [preserve |-> FALSE, firewall |-> FALSE]
    /\ keyLineCfg = Missing
    /\ fwLineCfg = Missing
    /\ live \in {NoTree, SomeTree}
    /\ db = "live"
    /\ artifact = NoTree
    /\ tempkey = NoFile
    /\ originalKey = NoKey
    /\ result = "pending"
    /\ stages = <<>>
    /\ cleanups = 0
    /\ liveAtCall = live
    /\ bPc = "mkdir"
    /\ backupType \in {"auto", "manual"}
    /\ staged = {}
    /\ backupFilename = NoName
    /\ archive = {}
    /\ saved = NotSaved
    /\ bRet = "pending"
    /\ cleanRaised = FALSE

BackupNext ==
    \/ Advance
    \/ BackupRunNext

BackupSpec == BackupInit /\ [][BackupNext]_vars

\* A key-preserving restore is called while a backup is called by another
\* process (the scheduler, or a second menu): both work in the one staging
\* directory.
SharedInit ==
    /\ InitCommon
    /\ CodecOff
    /\ ListOff
    /\ MenuOff
    /\ cfgOptions = GoodConfigs
    /\ cleanupMode = "last_per_day"
    /\ storageType = "local"
    /\ retentionDays = 0
    /\ capacity = MenuRoom
    /\ storage = {}
    /\ rPc = "save_key"
    /\ rArgs = [preserve |-> TRUE, firewall |-> FALSE]
    /\ keyLineCfg \in 1..2
    /\ fwLineCfg = 1
    /\ \E liveSecrets \in ShortLiveSecrets, backupSecrets \in ShortBackupSecrets :
          /\ live = [SomeTree EXCEPT !["constants.yml"] = liveSecrets]
          /\ artifact = [f \in FileNames |->
                        IF f = "constants.yml" THEN backupSecrets
                        ELSE IF f = "config.yml" THEN File(<<EnableYesLine>>)
                        ELSE BackupNetwork]
    /\ db = "live"
    /\ tempkey = NoFile
    /\ originalKey = NoKey
    /\ result = "pending"
    /\ stages = <<>>
    /\ cleanups = 0
    /\ liveAtCall = live
    /\ bPc = "mkdir"
    /\ backupType = "auto"
    /\ staged = {}
    /\ backupFilename = NoName
    /\ archive = {}
    /\ saved = NotSaved
    /\ bRet = "pending"
    /\ cleanRaised = FALSE

SharedNext ==
    \/ RestoreNext
    \/ BackupRunNext

SharedSpec == SharedInit /\ [][SharedNext]_vars

\* ------------------------------------------------------- the restore menu
LowerLetters == <<"e", "n", "o", "s", "y">>

UpperLetters == <<"E", "N", "O", "S", "Y">>

\* str.upper, over the letters the operator's answers are made of
Upper(s) ==
    [i \in 1..Len(s) |->
        IF \E k \in 1..Len(LowerLetters) : LowerLetters[k] = s[i]
        THEN UpperLetters[CHOOSE k \in 1..Len(LowerLetters) : LowerLetters[k] = s[i]]
        ELSE s[i]]

\* What the operator may type at a question.
Answers == {<<"Y">>, <<"y">>, <<" ", "y", " ">>, <<"N">>, <<"n">>, <<>>, YesText}

\* input().strip().upper() != "Y" is false
SaysYes(answer) == Upper(Strip(answer)) = <<"Y">>

\* The backups the restore menu shows: list_backups over the storage.
MenuDirectory ==
    <<Join(<<<<"n", "g", "c", "p">>, <<"p", "r", "o">>, <<"a", "u", "t", "o">>, <<"1", "4">>, <<"3", "0", "_", "1", "3">>, <<"0", "1">>, <<"2", "0", "2", "6">>>>,
          "-") \o ZipExt,
      Join(<<<<"n", "g", "c", "p">>, <<"p", "r", "o">>, <<"0", "9">>, <<"0", "0", "_", "2", "8">>, <<"0", "2">>, <<"2", "0", "2", "6">>>>,
          "-") \o ZipExt,
      Join(<<<<"n", "g", "c", "p">>, <<"c", "a", "r", "r", "i", "e", "r">>, <<"m", "a", "n", "u", "a", "l">>, <<"1", "4">>, <<"3", "0", "_", "1", "3">>, <<"0", "1">>, <<"2", "0", "2", "6">>>>,
          "-") \o ZipExt,
      Join(<<<<"l", "a", "b">>, <<"p", "r", "o">>, <<"a", "u", "t", "o">>, <<"7">>, <<"0", "5", "_", "0", "2">>, <<"1", "2">>, <<"2", "0", "2", "5">>>>,
          "-") \o ZipExt,
      Join(<<<<"m", "y">>, <<"s", "r", "v">>, <<"p", "r", "o">>, <<"a", "u", "t", "o">>, <<"1", "0">>, <<"1", "5", "_", "0", "3">>, <<"0", "3">>, <<"2", "0", "2", "6">>>>,
          "-") \o ZipExt>>

\* The identities config.yml may give the instance.
Identities ==
    {[server_name |-> <<"n", "g", "c", "p">>, instance_type |-> <<"p", "r", "o">>],
     [server_name |-> <<"m", "y", "-", "s", "r", "v">>, instance_type |-> <<"p", "r", "o">>],
     [server_name |-> <<"l", "a", "b">>, instance_type |-> <<"c", "a", "r", "r", "i", "e", "r">>]}

\* The backup is of this server, whatever its instance type.
IsSameServerByName(backup) == backup.server_name = current.server_name

\* handle_restore_confirmation, lines 332-337
IsSameServer(backup) ==
    /\ backup.server_name = current.server_name
    /\ backup.instance_type = current.instance_type

\* RestoreManager.run_restore, lines 386-391: its parameters; and
\* _execute_restore, lines 491-496: the arguments it is called with.
RunRestoreParameters == {"backup_filename", "preserve_sql_key", "disable_firewall"}

ExecuteRestoreKeywords == {"preserve_sql_key", "restore_sip_register", "disable_firewall"}

outsideMenu == <<listVars, bakVars, codecVars, envVars, file, storage, pc, memVars, cliVars,
                 polRes, inflight, histVars, keyLineCfg, fwLineCfg, live, db, artifact,
                 tempkey, originalKey, stages, cleanups, liveAtCall>>

Asked(question, answer) == asked' = Append(asked, [question |-> question, yes |-> SaysYes(answer)])

MenuInit ==
    /\ InitCommon
    /\ CodecOff
    /\ ListOff
    /\ RunOff
    /\ BakOff
    /\ cfgOptions = GoodConfigs
    /\ cleanupMode = "last_per_day"
    /\ storageType = "local"
    /\ retentionDays = 0
    /\ capacity = 0
    /\ storage = {}
    /\ mPc = "select"
    /\ current \in Identities
    /\ sel = NoArtifact
    /\ preserveSqlKey = FALSE
    /\ disableFirewall = FALSE
    /\ route = "none"
    /\ asked = <<>>

\* handle_restore_backup, lines 303-306, and handle_restore_confirmation.
HandleRestoreConfirmation ==
    /\ mPc = "select"
    /\ \E choice \in 1..Len(ListBackupFiles(MenuDirectory)) :
          sel' = ListBackupFiles(MenuDirectory)[choice]
    /\ IF IsSameServer(sel')
       THEN route' = "same" /\ mPc' = "same_confirm"
       ELSE route' = "dr" /\ mPc' = "key_prompt"
    /\ UNCHANGED <<outsideMenu, rPc, rArgs, result, current, preserveSqlKey,
                   disableFirewall, asked>>

\* _execute_restore: run_restore is called, and the stages begin, if it
\* takes the arguments; if not, the TypeError is caught at line 504 and
\* reported, and the menu is back.
ExecuteRestore(preserve_sql_key, disable_firewall) ==
    IF ExecuteRestoreKeywords \subseteq RunRestoreParameters
    THEN /\ rPc' = "save_key"
         /\ rArgs' = [preserve |-> preserve_sql_key, firewall |-> disable_firewall]
         /\ result' = "pending"
    ELSE /\ rPc' = rPc
         /\ rArgs' = rArgs
         /\ result' = "TypeError"

NotExecuted == UNCHANGED <<rPc, rArgs, result>>

\* _handle_same_server_restore
HandleSameServerRestore ==
    /\ mPc = "same_confirm"
    /\ \E confirm \in Answers :
          /\ Asked("proceed", confirm)
          /\ IF ~SaysYes(confirm) THEN NotExecuted ELSE ExecuteRestore(FALSE, FALSE)
    /\ mPc' = "back"
    /\ UNCHANGED <<outsideMenu, current, sel, preserveSqlKey, disableFirewall, route>>

\* _handle_different_server_restore, lines 381-395 and 409: the key
\* question, answered to preserve the key.
KeyQuestionPreserve ==
    /\ mPc = "key_prompt"
    /\ \E preserve_key \in Answers :
          /\ SaysYes(preserve_key)
          /\ Asked("preserve_key", preserve_key)
    /\ preserveSqlKey' = TRUE
    /\ mPc' = "firewall_prompt"
    /\ NotExecuted
    /\ UNCHANGED <<outsideMenu, current, sel, disableFirewall, route>>

\* _handle_different_server_restore, lines 381-409: the key question,
\* answered otherwise, and the question that follows it.
KeyQuestionDecline ==
    /\ mPc = "key_prompt"
    /\ \E preserve_key, confirm \in Answers :
          /\ ~SaysYes(preserve_key)
          /\ asked' = asked \o <<[question |-> "preserve_key", yes |-> FALSE],
                                 [question |-> "without_key", yes |-> SaysYes(confirm)]>>
          /\ mPc' = IF SaysYes(confirm) THEN "firewall_prompt" ELSE "back"
    /\ preserveSqlKey' = FALSE
    /\ NotExecuted
    /\ UNCHANGED <<outsideMenu, current, sel, disableFirewall, route>>

\* _handle_different_server_restore, lines 411-429.
FirewallQuestion ==
    /\ mPc = "firewall_prompt"
    /\ \E firewall_choice \in Answers :
          /\ Asked("deactivate_firewall", firewall_choice)
          /\ disableFirewall' = SaysYes(firewall_choice)
    /\ mPc' = "final_confirm"
    /\ NotExecuted
    /\ UNCHANGED <<outsideMenu, current, sel, preserveSqlKey, route>>

\* _handle_different_server_restore, lines 431-479.
FinalQuestion ==
    /\ mPc = "final_confirm"
    /\ \E confirm \in Answers :
          /\ Asked("proceed_dr", confirm)
          /\ IF ~SaysYes(confirm) THEN NotExecuted
             ELSE ExecuteRestore(preserveSqlKey, disableFirewall)
    /\ mPc' = "back"
    /\ UNCHANGED <<outsideMenu, current, sel, preserveSqlKey, disableFirewall, route>>

MenuNext ==
    \/ HandleRestoreConfirmation
    \/ HandleSameServerRestore
    \/ KeyQuestionPreserve
    \/ KeyQuestionDecline
    \/ FirewallQuestion
    \/ FinalQuestion

MenuSpec == MenuInit /\ [][MenuNext]_vars

\* ------------------------------------------------------------ properties
Has(seq, x) == \E i \in 1..Len(seq) : seq[i] = x

Asleep == pc \in {"sleep60", "backoff"}

\* The tick that is going to sleep began with a due backup.
TickRanBackup == Asleep /\ Len(trail) >= 2 /\ trail[1] = "backup"

\* C1: over any ticks and restarts the reboot command is issued at most
\* once per calendar month: no reboot is issued in a month in which one
\* was issued before.
C1_OneRebootPerMonth == ~dupReboot

\* C2: when the scheduler is about to run the reboot command, the state
\* file holds lastRebootMonth equal to the current month and a set
\* pendingRebootNotification.
C2_PersistedBeforeReboot ==
    pc = "reboot2" =>
        /\ file.ok
        /\ file.lrm = MonthKey(now)
        /\ file.pend # None

\* C3: the reboot-success notification of one reboot is never sent twice,
\* whatever kills and restarts follow the reboot.
C3_NotifiedAtMostOnce == notified <= 1

\* C4: a tick whose due backup failed (the executor returned no name, or
\* raised) ends with lastBackupTime set to the time of the attempt, in
\* memory and in the state file.
C4_FailedAttemptRecorded ==
    (TickRanBackup /\ trail[2] \in {"fail", "raise"}) =>
        /\ lbt = cur
        /\ file.ok
        /\ file.lbt = cur

\* C5: a backup is started exactly on the ticks on which it is due, and a
\* tick that started one ends only after retention, then cleanup, then
\* the persisting of lastBackupTime.
C5_BackupThenPoliciesThenPersist ==
    /\ pc = "backup" => IsAutomaticBackupEnabled(cfg) /\ BackupDue(cur, lbt)
    /\ (pc = "rebootchk" /\ trail = <<>>) => ~BackupDue(cur, lbt)
    /\ TickRanBackup =>
          /\ Len(trail) >= 5
          /\ SubSeq(trail, 3, 5) = <<"retention", "cleanup", "persist">>

\* C6: a tick that ends in its 60 second sleep in the scheduled reboot
\* minute, with automatic reboot enabled and no reboot recorded for the
\* month, has issued the reboot, whether or not backups are enabled.
C6_RebootCheckOnEveryTick ==
    (/\ pc = "sleep60"
     /\ cur = now
     /\ IsAutomaticRebootEnabled(cfg)
     /\ ShouldRebootNow(now)
     /\ lrm # MonthKey(now)) => Has(trail, "reboot")

\* C7: whenever the process is dead the state file is a complete
\* document, the previous one or the new one, never a torn one.
C7_StateFileNeverTorn == pc = "down" => file.ok

\* C8, as stated: a tick in which an exception was raised, the reboot
\* command's included, ends in the 5 minute backoff sleep.
C8_EveryErrorBacksOff ==
    (Asleep /\ (Has(trail, "raise") \/ Has(trail, "rebooterror"))) => pc = "backoff"

\* C8, amended: an exception that escapes a step of the tick to the loop
\* puts the loop into the backoff sleep, from which it only wakes into
\* the next tick and not before BackoffMinutes have passed; and the loop
\* is left only with the running flag lowered.
C8_EscapedErrorBacksOff ==
    [][/\ Has(trail', "raise") => pc' = "backoff"
       /\ pc = "backoff" => pc' \in {"backoff", "tick"}
       /\ (pc = "backoff" /\ pc' = "tick") => now >= asleepAt + BackoffMinutes
       /\ pc' = "exited" => ~running']_vars

\* The backoff after a caught exception has been slept in full and the
\* loop is about to tick again.
C8_BackoffSlept ==
    /\ pc = "backoff"
    /\ running
    /\ Has(trail, "raise")
    /\ now >= asleepAt + BackoffMinutes

\* C9, as stated: at most one of a scheduled backup, a manual backup and a
\* restore is executing at any time.
C9_AtMostOneOperation == Cardinality(inflight) <= 1

\* C9, amended: each process runs its operations one at a time: the menu
\* never has a manual backup and a restore in flight together, and while
\* the scheduler's backup is in flight its loop is blocked in it.  Nothing
\* keeps a menu operation from running next to the scheduler's.
C9_OneOperationPerProcess ==
    /\ ~({"manual", "restore"} \subseteq inflight)
    /\ "scheduled" \in inflight => pc = "backup"
    /\ "manual" \in inflight <=> cliPc = "manual"
    /\ "restore" \in inflight <=> cliPc = "restore"

\* A manual backup runs while the scheduler's backup is in flight.
C9_MenuNextToScheduler == inflight = {"scheduled", "manual"}

IsManual(f) == ParseBackupName(f).type = "manual"

IsOwnAutomatic(f) ==
    /\ ParseBackupName(f).valid
    /\ ParseBackupName(f).server_name = ServerName
    /\ ParseBackupName(f).type # "manual"

\* C10: no step deletes a manual backup, and a cleanup pass leaves, on
\* every day that held a non-manual backup of this server, one of them:
\* a manual backup does not stand in as the survivor of its day.
C10_ManualNeverDeleted ==
    [][/\ \A f \in storage : IsManual(f) => f \in storage'
       /\ (polPc = "cleanup" /\ polPc' = "off") =>
             \A f \in storage : IsOwnAutomatic(f) =>
                \E g \in storage' : IsOwnAutomatic(g) /\ DayOf(g.ts) = DayOf(f.ts)]_vars

\* A retention pass has run over a manual backup older than the cutoff
\* that shares its (past) day with another backup of this server.
C10_ExpiredManualKept ==
    /\ polPc = "cleanup"
    /\ \E f \in storage :
          /\ IsManual(f)
          /\ f.ts < CutoffDate(now)
          /\ DayOf(f.ts) # DayOf(now)
          /\ \E g \in storage : IsOwnAutomatic(g) /\ DayOf(g.ts) = DayOf(f.ts)

IsOtherServer(f) ==
    /\ ParseBackupName(f).valid
    /\ ParseBackupName(f).server_name # ServerName

RetentionStep == polPc = "off" /\ polPc' = "cleanup"

CleanupStep == polPc = "cleanup" /\ polPc' = "off"

\* The non-manual backups of this server dated on day d, in the store S.
OwnOfDay(S, d) == {f \in S : IsOwnAutomatic(f) /\ DayOf(f.ts) = d}

\* C11: no step, a retention or a cleanup pass least of all, deletes a
\* backup whose decoded server name is not this server's, whatever its
\* age, kind or day.
C11_OtherServersUntouched ==
    [][\A f \in storage : IsOtherServer(f) => f \in storage']_vars

\* Both passes have run, the cleanup in earnest, over two backups of
\* another server that are past the cutoff and share a past day.
C11_ForeignExpiredPairKept ==
    /\ polPc = "off"
    /\ polRes \in Nat
    /\ cleanupMode = "last_per_day"
    /\ \E f, g \in storage :
          /\ f # g
          /\ IsOtherServer(f) /\ IsOtherServer(g)
          /\ DayOf(f.ts) = DayOf(g.ts)
          /\ DayOf(f.ts) # DayOf(now)
          /\ f.ts < CutoffDate(now) /\ g.ts < CutoffDate(now)

\* C12, as stated: with retentionDays = 30 a retention pass deletes
\* exactly the non-manual backups aged 30 days or more, the one dated at
\* the cutoff included.
C12_ThirtyDaysOrOlderDeleted ==
    [][(RetentionStep /\ retentionDays = DefaultRetentionDays) =>
          \A f \in storage :
             f \notin storage' <=>
                (~IsManual(f) /\ now - f.ts >= DefaultRetentionDays * MinutesPerDay)]_vars

\* C12, amended: with retentionDays = 30 a retention pass deletes exactly
\* the non-manual backups aged more than 30 days; the one dated at the
\* cutoff is kept.
C12_OlderThanThirtyDaysDeleted ==
    [][(RetentionStep /\ retentionDays = DefaultRetentionDays) =>
          \A f \in storage :
             f \notin storage' <=>
                (~IsManual(f) /\ now - f.ts > DefaultRetentionDays * MinutesPerDay)]_vars

\* The pass has run at the very start over the backups aged 1 to 100
\* days: those aged 31 and 100 days are gone, the one aged exactly 30
\* days is kept with the younger ones, and so is every manual backup.
C12_CutoffBackupKept ==
    /\ polPc = "cleanup"
    /\ now = 0
    /\ polRes = 2
    /\ storage = AgedStore \ {Aged("auto", 31), Aged("auto", 100)}

\* C13: when every delete succeeds (local storage), a retention pass
\* deletes exactly the backups of this server that are not manual and are
\* dated strictly before now minus retentionDays, and nothing else.
C13_RetentionDeletesExactly ==
    [][(RetentionStep /\ storageType = "local") =>
          /\ storage' \subseteq storage
          /\ storage \ storage' =
                {f \in storage : /\ IsOwnAutomatic(f)
                                 /\ f.ts < now - retentionDays * MinutesPerDay}]_vars

\* A retention pass on local storage has deleted a backup and left one of
\* this server that is not manual, one that is manual and past the
\* cutoff, or one of another server past the cutoff.
C13_ExpiredDeletedOthersLeft ==
    /\ polPc = "cleanup"
    /\ storageType = "local"
    /\ polRes \in Nat /\ polRes >= 1
    /\ \E f \in storage :
          \/ IsOwnAutomatic(f)
          \/ IsManual(f) /\ f.ts < CutoffDate(now)
          \/ IsOtherServer(f) /\ f.ts < CutoffDate(now)

\* C14: a retention pass returns a count, the number of backups it
\* removed, whatever deletes failed and whatever the listing held: 0 for
\* an empty listing and for a listing without a backup of this server.
C14_RetentionReturnsCount ==
    [][RetentionStep =>
          /\ polRes' \in Nat
          /\ polRes' = Cardinality(storage \ storage')]_vars

\* C15: a cleanup pass deletes no backup dated on the current day.
C15_TodayNeverPruned ==
    [][CleanupStep => \A f \in storage : DayOf(f.ts) = DayOf(now) => f \in storage']_vars

\* A cleanup pass in mode last_per_day, with every delete succeeding, has
\* left two non-manual backups of this server dated today.
C15_TodayHoldsTwo ==
    /\ polPc = "off"
    /\ polRes \in Nat
    /\ cleanupMode = "last_per_day"
    /\ storageType = "local"
    /\ Cardinality(OwnOfDay(storage, DayOf(now))) >= 2

C17_OtherModesDoNothing ==
    [][(CleanupStep /\ cleanupMode # "last_per_day") =>
          /\ storage' = storage
          /\ polRes' = 0]_vars

\* A cleanup pass under an unknown mode has returned 0 and left two
\* non-manual backups of this server on one past day.
C17_UnknownModeLeftDuplicates ==
    /\ polPc = "off"
    /\ polRes = 0
    /\ cleanupMode = "other"
    /\ \E d \in {DayOf(f.ts) : f \in storage} \ {DayOf(now)} :
          Cardinality(OwnOfDay(storage, d)) >= 2

NoDelimiter(text) == \A i \in 1..Len(text) : text[i] \notin {"-", "_", "."}

\* A name has been built from fields in the layout with a kind segment
\* (new), or without one (legacy), and has been parsed.
ParsedBuilt(legacy) ==
    /\ codecPc = "parsed"
    /\ fields # NoFields
    /\ (fields.kind = NoKind) = legacy

DecodedAs(kind) ==
    /\ decoded.valid
    /\ decoded.server_name = fields.server
    /\ decoded.instance_type = fields.instance
    /\ decoded.type = kind
    /\ decoded.datetime = fields.time

\* C18: a name generated from a server name and an instance type without
\* delimiter characters, a kind auto or manual and a time to the minute
\* parses to the same server name, instance type, kind and time, and to
\* the same file name.
C18_RoundTrip ==
    (/\ ParsedBuilt(FALSE)
     /\ NoDelimiter(fields.server)
     /\ NoDelimiter(fields.instance)) =>
        /\ DecodedAs(fields.kind)
        /\ decoded.filename = fname
        /\ GenerateFileName(decoded.server_name, decoded.instance_type,
                            decoded.type, decoded.datetime) = fname

\* A generated name whose server name reads "auto" and whose instance
\* type reads "manual" has been parsed, on the last minute of a leap day.
C18_KindLikeIdentityParsed ==
    /\ ParsedBuilt(FALSE)
    /\ fields.server = AutoText
    /\ fields.instance = ManualText
    /\ fields.time = [year |-> 2024, month |-> 2, day |-> 29, hour |-> 23, minute |-> 59]
    /\ decoded.valid

\* C19, as stated: every name built in the layout without the kind
\* segment parses to kind unknown and to the server name, instance type
\* and time it was built from.
C19_EveryLegacyNameDecodes == ParsedBuilt(TRUE) => DecodedAs(UnknownText)

\* C19, amended: so does every such name built from a server name and an
\* instance type without delimiter characters.
C19_LegacyNameDecodes ==
    (/\ ParsedBuilt(TRUE)
     /\ NoDelimiter(fields.server)
     /\ NoDelimiter(fields.instance)) => DecodedAs(UnknownText)

\* A name without the kind segment whose instance type reads "manual"
\* has been parsed to kind unknown.
C19_KindLikeInstanceParsed ==
    /\ ParsedBuilt(TRUE)
    /\ NoDelimiter(fields.server)
    /\ fields.instance = ManualText
    /\ decoded.valid
    /\ decoded.type = UnknownText

\* The ways a file name can be bad, read off its text: the name without
\* its extension has fewer than six hyphen-separated segments; or the
\* third segment from the end is not two fields joined by one underscore;
\* or one of the five time fields is not a number; or the numbers are no
\* time of day on a day of the calendar.
Segments(name) == Split(SplitExt(name), "-")

TooFewSegments(name) == Len(Segments(name)) < 6

TokenShaped(name) ==
    /\ ~TooFewSegments(name)
    /\ Len(Split(Segments(name)[Len(Segments(name)) - 2], "_")) = 2

\* hour, minute, day, month, year
TimeFields(name) ==
    LET p == Segments(name)
        n == Len(p)
        md == Split(p[n - 2], "_")
    IN  <<p[n - 3], md[1], md[2], p[n - 1], p[n]>>

NonNumericField(name) ==
    /\ TokenShaped(name)
    /\ \E i \in 1..5 : ~IsNumber(TimeFields(name)[i])

CalendarDays(y, m) ==
    CASE m \in {1, 3, 5, 7, 8, 10, 12} -> 31
      [] m \in {4, 6, 9, 11} -> 30
      [] m = 2 /\ y % 4 = 0 /\ (y % 100 # 0 \/ y % 400 = 0) -> 29
      [] m = 2 /\ ~(y % 4 = 0 /\ (y % 100 # 0 \/ y % 400 = 0)) -> 28
      [] OTHER -> 0

ImpossibleDate(name) ==
    /\ TokenShaped(name)
    /\ ~NonNumericField(name)
    /\ LET v == [i \in 1..5 |-> NumberValue(TimeFields(name)[i])]
       IN  \/ v[1] > 23
           \/ v[2] > 59
           \/ v[3] < 1
           \/ v[3] > CalendarDays(v[5], v[4])

Decodable(entries) ==
    {entries[i] : i \in {k \in 1..Len(entries) :
        EndsWith(entries[k], ZipExt) /\ ParseFileName(entries[k]).valid}}

KeyOf(tree) == ExtractKey(tree["constants.yml"], TargetKeyLine)

\* C22: after a restore that was asked to preserve the key and returned
\* True, the key on the configured line of the live secrets file is the
\* key that was on that line when the restore was called.
C22_PreservedKeyKept ==
    (rArgs.preserve /\ result = "True") => KeyOf(live) = KeyOf(liveAtCall)

\* ---- C23
\* The stages of a restore called with these arguments, in their order.
ExpectedStages ==
    SelectSeq(StageOrder,
              LAMBDA stage : /\ stage \in {"save_key", "patch_key"} => rArgs.preserve
                             /\ stage = "firewall" => rArgs.firewall)

\* C23: the stages a restore has completed are, in this order and with
\* none left out, the first stages of: save key (if preserving), fetch
\* and extract, replace the configuration, patch the key (if preserving),
\* patch the firewall flag (if requested), first apply, replace the
\* database, second apply, clean staging.
C23_StagesInFixedOrder ==
    /\ Len(stages) <= Len(ExpectedStages)
    /\ stages = SubSeq(ExpectedStages, 1, Len(stages))

\* ---- C24
Done(stage) == Has(stages, stage)

\* C24: a restore whose key extraction raises returns False with no stage
\* completed; and whenever a restore has returned False it has stopped
\* short of the last stage, clean_tmp was tried, and what the completed
\* stages put in place is still there: the configuration files taken from
\* the backup and the database read from its dump.
C24_FailureStopsAndReports ==
    /\ (rArgs.preserve /\ KeyOf(liveAtCall) = Raised /\ rPc # "save_key") =>
          /\ rPc = "returned"
          /\ result = "False"
          /\ stages = <<>>
    /\ result = "False" =>
          /\ rPc = "returned"
          /\ cleanups >= 1
          /\ ~Done("clean")
          /\ Done("database") => db = "backup"
          /\ Done("config") => live["network.yml"] = liveAtCall["network.yml"]
          /\ (Done("config") /\ ~Done("firewall") /\ artifact["config.yml"].exists) =>
                live["config.yml"] = artifact["config.yml"]
          /\ (Done("config") /\ ~Done("patch_key") /\ artifact["constants.yml"].exists) =>
                live["constants.yml"] = artifact["constants.yml"]
    /\ result = "True" => Done("clean") /\ Done("apply2")

\* C24 witness: the second apply failed after the configuration and the
\* database were replaced; False was returned and both are left replaced.
C24_FailedAfterDatabase ==
    /\ result = "False"
    /\ stages # <<>>
    /\ stages[Len(stages)] = "database"
    /\ db = "backup"
    /\ live["constants.yml"] # liveAtCall["constants.yml"]
    /\ live["constants.yml"] = artifact["constants.yml"]

\* ---- C25
\* The line number is outside the file, or the line there is not a key line.
BadKeyLine(constants) ==
    \/ TargetKeyLine < 1
    \/ TargetKeyLine > Len(constants.lines)
    \/ ~StartsWith(Strip(constants.lines[TargetKeyLine]), KeyPrefix)

\* The secrets file as stage 4 finds it.
RestoredSecrets == RestoreNgcpConfig(liveAtCall, artifact)["constants.yml"]

\* C25: with a key line number below 1 or beyond the end of the secrets
\* file, or a line there that does not begin with key:, extract_key and
\* restore_key_into_constants do not complete, the restore returns False,
\* and the secrets file is left as it was.
C25_BadKeyLineFailsClosed ==
    /\ (rArgs.preserve /\ BadKeyLine(liveAtCall["constants.yml"])) =>
          /\ ~Done("save_key")
          /\ rPc \in {"save_key", "returned"}
          /\ rPc = "returned" => result = "False"
          /\ live = liveAtCall
    /\ (rArgs.preserve /\ Truthy(originalKey) /\ BadKeyLine(RestoredSecrets)) =>
          /\ ~Done("patch_key")
          /\ rPc \in {"save_key", "fetch", "config", "patch_key", "returned"}
          /\ rPc = "returned" => result = "False"
          /\ Done("config") => live["constants.yml"] = RestoredSecrets

\* ---- C26
\* C26: at every point of a restore, and after it has returned True or
\* False, network.yml of the live instance is as it was at the call.
C26_NetworkIdentityKept == live["network.yml"] = liveAtCall["network.yml"]

\* C26 witness: a restore from a backup that holds another network.yml has
\* replaced the configuration and returned.
C26_RestoredNextToForeignIdentity ==
    /\ rPc = "returned"
    /\ Done("config")
    /\ artifact["network.yml"].exists
    /\ artifact["network.yml"] # liveAtCall["network.yml"]
    /\ live["config.yml"] # liveAtCall["config.yml"]

Repatched(before, after, n, prefix) ==
    /\ Len(after.lines) = Len(before.lines)
    /\ \A i \in 1..Len(before.lines) : i # n => after.lines[i] = before.lines[i]
    /\ StartsWith(LStrip(after.lines[n]), prefix)

C27_RoutedByIdentity ==
    route # "none" =>
        /\ route = "same" <=> /\ sel.server_name = current.server_name
                              /\ sel.instance_type = current.instance_type
        /\ route = "same" => \A i \in 1..Len(asked) : asked[i].question = "proceed"
        /\ (route = "dr" /\ asked # <<>>) => asked[1].question = "preserve_key"

\* C27 witness: a backup of the configured server but of another instance
\* type went through the disaster-recovery flow to its last question.
C27_OtherInstanceTypeTakenAsForeign ==
    /\ sel.server_name = current.server_name
    /\ sel.instance_type # current.instance_type
    /\ route = "dr"
    /\ Len(asked) >= 3
    /\ mPc = "back"

\* ---- C28
\* C28: the same-instance flow asks one question; answered with yes, the
\* restore stages run with preserve_sql_key and disable_firewall both
\* False, and answered otherwise, no stage runs.
C28_SameInstanceConfirmedRuns ==
    (route = "same" /\ mPc = "back") =>
        /\ Len(asked) = 1
        /\ IF asked[1].yes
           THEN rPc # "off" /\ rArgs = [preserve |-> FALSE, firewall |-> FALSE]
           ELSE rPc = "off" /\ stages = <<>>

\* ---- C29
SaidYes(question) ==
    \E i \in 1..Len(asked) : asked[i].question = question /\ asked[i].yes

GoAhead ==
    /\ SaidYes("proceed_dr")
    /\ SaidYes("preserve_key") \/ SaidYes("without_key")

\* C29: in the disaster-recovery flow the restore stages run only after
\* the last question was answered with yes and, where preserving the key
\* was declined, the question after it too; they then run with the
\* operator's choices for preserve_sql_key and disable_firewall; and after
\* any refusal no stage runs.
C29_DisasterRecoveryRunsAsChosen ==
    route = "dr" =>
        /\ rPc # "off" => GoAhead
        /\ (mPc = "back" /\ GoAhead) =>
              /\ rPc # "off"
              /\ rArgs = [preserve |-> SaidYes("preserve_key"),
                          firewall |-> SaidYes("deactivate_firewall")]
        /\ (mPc = "back" /\ ~GoAhead) => rPc = "off" /\ stages = <<>>

\* ---- C31
\* The network-policy file as stage 5 finds it.
RestoredPolicy == RestoreNgcpConfig(liveAtCall, artifact)["config.yml"]

\* The line number is outside the file, or the line there is not an
\* enable: yes|no line.
BadFirewallLine(config) ==
    \/ FirewallEnableLine < 1
    \/ FirewallEnableLine > Len(config.lines)
    \/ ~FirewallEnablePattern(config.lines[FirewallEnableLine])

\* The blanks a line begins with.
Indent(line) == SubSeq(line, 1, Len(line) - Len(LStrip(line)))

\* C31: a firewall-disabling restore whose stage 5 has completed found an
\* enable: yes|no line at the configured line number of the restored
\* network-policy file and has rewritten that line, and no other, to
\* enable: no behind its own indentation; with a line number outside the
\* file or a line there that does not match, stage 5 does not complete,
\* the restore returns False and the file is as it was restored.
C31_FirewallLinePatchedOrFailed ==
    /\ (rArgs.firewall /\ Done("firewall")) =>
          /\ ~BadFirewallLine(RestoredPolicy)
          /\ Len(live["config.yml"].lines) = Len(RestoredPolicy.lines)
          /\ \A i \in 1..Len(RestoredPolicy.lines) :
                live["config.yml"].lines[i] =
                    IF i = FirewallEnableLine
                    THEN Indent(RestoredPolicy.lines[i]) \o EnablePrefix \o <<" ">> \o NoText
                    ELSE RestoredPolicy.lines[i]
    /\ (rArgs.firewall /\ BadFirewallLine(RestoredPolicy)) =>
          /\ ~Done("firewall")
          /\ rPc \in {"save_key", "fetch", "config", "patch_key", "firewall", "returned"}
          /\ rPc = "returned" => result = "False"
          /\ Done("config") => live["config.yml"] = RestoredPolicy
    /\ (rArgs.firewall /\ rPc \in {"apply1", "database", "apply2", "clean"}) =>
          Done("firewall")

\* ---- C32
\* The steps of a backup tick: the backup, the two passes and the
\* persisting of lastBackupTime.
BackupSteps == {"backup", "retention", "cleanup", "persist"}

\* C32: a step of the running loop that leaves it with automatic backup
\* switched off in its loaded configuration starts no backup, no retention
\* pass and no cleanup pass, leaves lastBackupTime as it was in memory and
\* in the state file, and leaves the storage alone: from the top of the
\* loop it only goes to sleep (or ends, the flag being down).
C32_DisabledOnlySleeps ==
    [][(cfg'.ok /\ ~cfg'.backup /\ pc \in {"tick", "sleep60", "backoff"}) =>
          /\ pc' \notin BackupSteps
          /\ pc = "tick" => pc' \in {"sleep60", "backoff", "exited"}
          /\ lbt' = lbt
          /\ file' = file
          /\ storage' = storage
          /\ inflight' = inflight]_vars

\* C32 witness: a tick has reloaded a configuration with automatic backup
\* switched off while a backup was due, and sleeps with lastBackupTime as
\* the earlier backup left it.
C32_IdleWhileBackupDue ==
    /\ pc = "sleep60"
    /\ trail = <<"idle">>
    /\ cfg.ok
    /\ ~cfg.backup
    /\ lbt # None
    /\ BackupDue(cur, lbt)
    /\ file.ok
    /\ file.lbt = lbt

LoopPcs == {"tick", "backup", "retention", "cleanup", "persist", "saving", "rebootchk",
            "reboot1", "reboot2", "sleep60", "backoff"}

\* The reboot check finds the reboot due and sets about it.
RebootStarted == pc = "rebootchk" /\ pc' \in {"saving", "reboot1"}

C35_NoPendingAfterFailedReboot ==
    (Has(trail, "rebooterror") /\ file.ok) => file.pend = None

\* ---- C36
\* C36: from the end of stage 1 to the key patch of stage 4 a
\* key-preserving restore finds its side-file in the staging directory as
\* stage 1 wrote it, whatever a backup does next to it; and a restore
\* that stops at the key patch, the configuration being replaced, does so
\* for the key line of the restored secrets file only.
C36_RestoreStagingKept ==
    /\ (rArgs.preserve /\ Done("save_key") /\ rPc \in {"fetch", "config", "patch_key"}) =>
          tempkey = SaveKeyToTemp(originalKey)
    /\ (/\ rArgs.preserve
        /\ Truthy(originalKey)
        /\ rPc = "returned"
        /\ stages # <<>>
        /\ stages[Len(stages)] = "config") => BadKeyLine(RestoredSecrets)

\* ---- C37
\* The archives a scheduled backup of the tick under way has stored.
MadeThisTick ==
    {f \in storage : f.id = GenerateBackupName("auto", now).id /\ f.ts >= cur}

\* C37: in a tick whose scheduled backup stored its archive, the archive
\* is in the storage after the retention pass and after the cleanup pass.
C37_FreshArtifactKept ==
    (/\ Len(trail) >= 3
     /\ trail[1] = "backup"
     /\ trail[2] = "ok"
     /\ Has(trail, "retention")) => MadeThisTick # {}

\* ---- C38
\* C38: an artifact that run_backup has stored and returned the name of
\* holds what run_restore looks for in it: ngcp-config/ and database.sql.
C38_ArtifactRestorable ==
    bRet = "name" => (saved.there /\ RestoreRequires \subseteq saved.parts)

\* ---- C39
\* What the state file holds of a field, None when it cannot be read.
Stored(field) ==
    IF ~file.ok THEN None
    ELSE IF field = "lbt" THEN file.lbt
    ELSE IF field = "lrm" THEN file.lrm
    ELSE file.pend

\* A state update hands its document to the write.
UpdateBy(step) == pc = step /\ pc' = "saving"

LoopInScheduledMinute(m) ==
    /\ pc \in LoopPcs
    /\ running
    /\ IsAutomaticBackupEnabled(cfg)
    /\ IsAutomaticRebootEnabled(cfg)
    /\ ShouldRebootNow(now)
    /\ MonthKey(now) = m

\* C40, as a liveness property: whenever the loop is running in the
\* scheduled minute of a month, the reboot command is eventually run in
\* that month.
C40_RebootInScheduledMonth ==
    \A m \in 0..MonthKey(MaxTime) : LoopInScheduledMinute(m) ~> (lastReboot = m)

\* The scheduled minute of the month of time t.
ScheduledTime(t) ==
    MonthKey(t) * MinutesPerMonth + (RebootDay - 1) * MinutesPerDay + RebootMinute

\* When the tick under way, or the sleep under way, began.
Since == IF Asleep THEN asleepAt ELSE cur

\* C40, as the safety property it comes to, the reboot check matching in
\* the scheduled minute only: when the loop, with automatic backups and
\* automatic reboot switched on, has been in one tick or in one sleep
\* from the scheduled minute of the month, or from before it, until after
\* it, the reboot command has been run in that month.
C40_ScheduledMinuteNotPassedOver ==
    (/\ pc \in LoopPcs \ {"tick"}
     /\ running
     /\ IsAutomaticBackupEnabled(cfg)
     /\ IsAutomaticRebootEnabled(cfg)
     /\ MonthKey(Since) = MonthKey(now)
     /\ Since <= ScheduledTime(now)
     /\ ScheduledTime(now) < now) => lastReboot = MonthKey(now)


====
